---------------------------- MODULE Spec2Model ----------------------------
(***************************************************************************)
(* A model of museun/twitch_message_bot: the connection manager of crate   *)
(* twitch_message_bot (client.rs, writer.rs) and the command dispatcher of *)
(* crate twitch_message_dispatcher (dispatcher.rs, bind.rs).               *)
(*                                                                         *)
(* Spec          the reconnect supervisor `connect`, Client::connect,      *)
(*               Client::drain_pending_writes and the event loop           *)
(*               Client::run, with the producers that hold a Writer.       *)
(* DispatchSpec  Dispatcher::dispatch_async: the help short-circuit, the   *)
(*               task per binding, the task per handler of a binding.      *)
(***************************************************************************)
EXTENDS Integers, Sequences, FiniteSets, TLC

(***************************************************************************)
(* Bounds of the model.                                                    *)
(***************************************************************************)
\* Writer sends in one behaviour.
MaxSends == 3
\* Connection attempts of the supervisor in one behaviour.
MaxAttempts == 2
\* Ticks of the clock in one behaviour.
MaxTicks == 5
\* PING lines the server sends in one behaviour.
MaxServerPings == 1

(***************************************************************************)
(* Program constants.                                                      *)
(***************************************************************************)
\* Config::ping_delay, in ticks of 15 seconds (30 seconds).
PingDelay == 2
\* DEFAULT_DELAY of connect, in seconds.
DEFAULT_DELAY == 10

\* Option::None.
None == "None"
\* The channel names producers use.
Channels == {"a", "b"}
\* The login name the server's ready message carries.
Names == {"bot"}
\* The delays on_disconnected may answer in Reconnect::After.
Delays == {3}
\* The errors of client.rs.
Errors == {"CannotWrite", "CannotRegister", "CannotRead", "CannotInit"}

(***************************************************************************)
(* writer.rs: WriteKind.  A request is [kind, channel]; channel is the      *)
(* channel of Join/Part, the target of Privmsg/Reply, and None otherwise.   *)
(***************************************************************************)
Join(c) == [kind |-> "Join", channel |-> c]
Part(c) == [kind |-> "Part", channel |-> c]
Raw == [kind |-> "Raw", channel |-> None]
Privmsg == [kind |-> "Privmsg", channel |-> "a"]
Reply == [kind |-> "Reply", channel |-> "a"]
Quit == [kind |-> "Quit", channel |-> None]

WriteKind ==
    {Join(c) : c \in Channels} \cup {Part(c) : c \in Channels}
        \cup {Raw, Privmsg, Reply, Quit}

\* The requests the producers of the model send: the membership requests,
\* a request that is written as a line, and Quit.
Requests == {Join("a"), Join("b"), Part("a"), Privmsg, Quit}

\* What the environment does in one behaviour: the sends of the producers,
\* the connection attempts it lets the supervisor make, the ticks of the
\* clock and the PING lines of the server.  Either the producers and the
\* reconnects are exercised, or the clock is.
Environments ==
    {[sends |-> MaxSends, attempts |-> MaxAttempts, ticks |-> 0, pings |-> 0],
     [sends |-> 1, attempts |-> 1, ticks |-> MaxTicks,
      pings |-> MaxServerPings]}

VARIABLES
    env,         \* the environment of this behaviour, one of Environments
    pc,          \* where the supervisor `connect` is
    recv,        \* the Write Queue: requests sent and not yet received
    channels,    \* Client::channels, the JoinedChannelSet
    queue,       \* Client::queue, the PendingQueue
    our_name,    \* run's our_name: Option<String>
    identity,    \* the Identity handed to on_connected on this connection
    socket,      \* the frames written on the current connection, in order
    handed,      \* a collaborator holds a clone of the Writer
    result,      \* what Client::connect or Client::run returned last
    policy,      \* what on_disconnected answered last
    delay,       \* the delay the supervisor sleeps
    attempts,    \* on_connecting calls so far
    failures,    \* failed connect() and errored run() so far
    consulted,   \* on_disconnected calls so far
    sends,       \* Writer sends so far
    consumed,    \* this run has read a line or received a request
    ticks,       \* ticks of the clock so far
    pings,       \* PING lines of the server so far
    idle,        \* ticks elapsed on the timeout of this loop iteration
    quiet,       \* ticks since the loop last read a line or received a request
    mark,        \* the length of the socket at that time
    wanted,      \* channels whose last received request is a Join
    join_order   \* the channels of JoinedChannelSet in the order inserted

clientVars ==
    <<env, ticks, pings, pc, recv, channels, queue, our_name, identity, socket, handed, result,
      policy, delay, attempts, failures, consulted, sends, consumed, idle,
      quiet, mark, wanted, join_order>>


VARIABLES
    help_cmd,      \* Dispatcher::help_cmd: Option<Command>
    callables,     \* Dispatcher::callables
    command_file,  \* COMMAND_FILE
    registry,      \* HELP_REGISTRY: the entries in the order of their ids
    msg,           \* the message dispatch_async was called with
    dpc,           \* where dispatch_async is
    bind_task,     \* the task of each binding in dispatch_async's JoinSet
    task,          \* the task of each handler in its binding's JoinSet
    lock,          \* the holder of the Mutex of each binding's state
    helped,        \* try_send_help ran for the message
    replied        \* the handlers that enqueued a reply of their own

dispatchVars ==
    <<help_cmd, callables, command_file, registry, msg, dpc, bind_task,
      task, lock, helped, replied>>

\* The variables of the connection manager but the Write Queue.
clientRest ==
    <<env, ticks, pings, pc, channels, queue, our_name, identity, socket,
      handed, result, policy, delay, attempts, failures, consulted, sends,
      consumed, idle, quiet, mark, wanted, join_order>>

VARIABLES
    call,          \* the call of a function under check: its arguments
    ret            \* what the call returned, once it has

pureVars == <<call, ret>>

vars == <<clientVars, dispatchVars, pureVars>>

(***************************************************************************)
(* Frames and Client::write.                                               *)
(***************************************************************************)
Frame(k, c) == [kind |-> k, channel |-> c]

\* twitch_message::encode of one request: the frame handle_write writes.
Encode(req) ==
    CASE req.kind = "Join" -> Frame("JOIN", req.channel)
      [] req.kind = "Part" -> Frame("PART", req.channel)
      [] req.kind = "Raw" -> Frame("RAW", None)
      [] req.kind = "Privmsg" -> Frame("PRIVMSG", req.channel)
      [] req.kind = "Reply" -> Frame("REPLY", req.channel)
      [] req.kind = "Quit" -> Frame("QUIT", None)

\* The position of x in the sequence s, 0 when absent.
Index(s, x) ==
    IF \E i \in 1..Len(s) : s[i] = x
    THEN CHOOSE i \in 1..Len(s) : s[i] = x /\ \A j \in 1..(i - 1) : s[j] # x
    ELSE 0

\* s without its elements equal to x.
Without(s, x) == SelectSeq(s, LAMBDA y : y # x)

\* The sequences that list every element of the set S once.
Orders(S) ==
    {o \in [1..Cardinality(S) -> S] : \A i, j \in 1..Cardinality(S) :
        i # j => o[i] # o[j]}

(***************************************************************************)
(* JoinedChannelSet bookkeeping.                                           *)
(***************************************************************************)
\* ApplyMembership with a Part that removes nothing.
ApplyMembershipJoinOnly(set, req) ==
    CASE req.kind = "Join" -> set \cup {req.channel}
      [] OTHER -> set

\* HashSet::insert / HashSet::remove of drain_pending_writes.
ApplyMembership(set, req) ==
    CASE req.kind = "Join" -> set \cup {req.channel}
      [] req.kind = "Part" -> set \ {req.channel}
      [] OTHER -> set

\* The channels whose last received request is a Join, after req is received.
Wanted(set, req) ==
    CASE req.kind = "Join" -> set \cup {req.channel}
      [] req.kind = "Part" -> set \ {req.channel}
      [] OTHER -> set

\* The order of insertion into a set after req is applied to it.
Ordered(order, req) ==
    CASE req.kind = "Join" ->
            IF Index(order, req.channel) = 0
            THEN Append(order, req.channel) ELSE order
      [] req.kind = "Part" -> Without(order, req.channel)
      [] OTHER -> order

\* The while loop of drain_pending_writes over the requests rs:
\* [channels, queue, wanted, order] after it.
RECURSIVE Drain(_, _)
Drain(rs, st) ==
    IF rs = <<>> THEN st
    ELSE LET req == Head(rs)
             member == req.kind \in {"Join", "Part"}
         IN  Drain(Tail(rs),
                   [channels |-> ApplyMembership(st.channels, req),
                    queue |-> IF member THEN st.queue
                              ELSE Append(st.queue, req),
                    wanted |-> Wanted(st.wanted, req),
                    order |-> Ordered(st.order, req)])

(***************************************************************************)
(* The flush of the PendingQueue when the global identity arrives.         *)
(***************************************************************************)
\* Flush with the entries popped from the back of the queue.
RECURSIVE FlushFromBack(_, _, _)
FlushFromBack(q, sock, fail) ==
    IF q = <<>> THEN [queue |-> q, socket |-> sock, result |-> None]
    ELSE LET last == q[Len(q)]
             front == SubSeq(q, 1, Len(q) - 1)
         IN  IF fail = 1
             THEN [queue |-> front, socket |-> sock,
                   result |-> "CannotWrite"]
             ELSE IF last.kind = "Quit"
                  THEN [queue |-> front,
                        socket |-> Append(sock, Encode(last)),
                        result |-> "Ok"]
                  ELSE FlushFromBack(front, Append(sock, Encode(last)),
                                     IF fail = 0 THEN 0 ELSE fail - 1)

\* The while loop `while let Some(msg) = self.queue.pop_front()`.  fail is
\* the number of the handle_write that fails (0: none does).
\* [queue, socket, result]: result is "Ok" after a Quit, "CannotWrite"
\* after the failed write, None when the queue ran empty.
RECURSIVE Flush(_, _, _)
Flush(q, sock, fail) ==
    IF q = <<>> THEN [queue |-> q, socket |-> sock, result |-> None]
    ELSE IF fail = 1
         THEN [queue |-> Tail(q), socket |-> sock, result |-> "CannotWrite"]
         ELSE IF Head(q).kind = "Quit"
              THEN [queue |-> Tail(q),
                    socket |-> Append(sock, Encode(Head(q))),
                    result |-> "Ok"]
              ELSE Flush(Tail(q), Append(sock, Encode(Head(q))),
                         IF fail = 0 THEN 0 ELSE fail - 1)

(***************************************************************************)
(* The state after construction: `connect` has made the Writer and the     *)
(* receiver; no collaborator holds the Writer yet.                         *)
(***************************************************************************)
ClientInit ==
    /\ env \in Environments
    /\ ticks = 0
    /\ pings = 0
    /\ pc = "init"
    /\ recv = <<>>
    /\ channels = {}
    /\ queue = <<>>
    /\ our_name = None
    /\ identity = None
    /\ socket = <<>>
    /\ handed = FALSE
    /\ result = None
    /\ policy = None
    /\ delay = 0
    /\ attempts = 0
    /\ failures = 0
    /\ consulted = 0
    /\ sends = 0
    /\ consumed = FALSE
    /\ idle = 0
    /\ quiet = 0
    /\ mark = 0
    /\ wanted = {}
    /\ join_order = <<>>

(***************************************************************************)
(* The supervisor `connect`.                                               *)
(***************************************************************************)
\* run or Client::connect returned Err(error): the Err arm of the match.
Fails(error) ==
    /\ result' = error
    /\ failures' = failures + 1
    /\ pc' = "on_disconnected"

\* HandlerInit with the error of H::init dropped instead of returned.
HandlerInitIgnoresError ==
    /\ pc = "init"
    /\ \E ok \in BOOLEAN :
        IF ok THEN pc' = "on_connecting" /\ UNCHANGED result
        ELSE pc' = "on_connecting" /\ result' = "CannotInit"
    /\ UNCHANGED <<env, ticks, pings, recv, channels, queue, our_name,
                   identity, socket, handed, policy, delay, attempts,
                   failures, consulted, sends, consumed, idle, quiet, mark,
                   wanted, join_order>>
    /\ UNCHANGED <<dispatchVars, pureVars>>

\* let handler = H::init().await?
HandlerInit ==
    /\ pc = "init"
    /\ \E ok \in BOOLEAN :
        IF ok THEN pc' = "on_connecting" /\ UNCHANGED result
        ELSE pc' = "failed" /\ result' = "CannotInit"
    /\ UNCHANGED <<env, ticks, pings, recv, channels, queue, our_name,
                   identity, socket, handed, policy, delay, attempts,
                   failures, consulted, sends, consumed, idle, quiet,
                   mark, wanted, join_order>>
    /\ UNCHANGED <<dispatchVars, pureVars>>

\* client.handler.on_connecting().await, the first statement of the loop.
OnConnecting ==
    /\ pc = "on_connecting"
    /\ attempts < env.attempts
    /\ attempts' = attempts + 1
    /\ pc' = "connect"
    /\ UNCHANGED <<env, ticks, pings, recv, channels, queue, our_name,
                   identity, socket, handed, result, policy, delay, failures,
                   consulted, sends, consumed, idle, quiet, mark,
                   wanted, join_order>>
    /\ UNCHANGED <<dispatchVars, pureVars>>

\* Client::connect: the transport connect, then the registration write.
ClientConnect ==
    /\ pc = "connect"
    /\ \E r \in {"Ok", "CannotWrite", "CannotRegister"} :
        IF r = "Ok"
        THEN /\ socket' = <<Frame("REGISTER", None)>>
             /\ result' = None
             /\ pc' = "drain"
             /\ UNCHANGED failures
        ELSE /\ socket' = <<>>
             /\ Fails(r)
    /\ consumed' = FALSE
    /\ UNCHANGED <<env, ticks, pings, recv, channels, queue, our_name,
                   identity, handed, policy, delay, attempts, consulted,
                   sends, idle, quiet, mark, wanted, join_order>>
    /\ UNCHANGED <<dispatchVars, pureVars>>

\* OnDisconnected with Reconnect::Never handled like Reconnect::Always.
OnDisconnectedNeverRetries ==
    /\ pc = "on_disconnected"
    /\ consulted' = consulted + 1
    /\ \E p \in {"Never", "Always", "After"} :
        /\ policy' = p
        /\ CASE p = "Never" -> pc' = "sleep" /\ delay' = DEFAULT_DELAY
             [] p = "Always" -> pc' = "sleep" /\ delay' = DEFAULT_DELAY
             [] p = "After" -> pc' = "sleep" /\ \E d \in Delays : delay' = d
    /\ UNCHANGED <<env, ticks, pings, recv, channels, queue, our_name,
                   identity, socket, handed, result, attempts, failures,
                   sends, consumed, idle, quiet, mark, wanted, join_order>>
    /\ UNCHANGED <<dispatchVars, pureVars>>

\* client.handler.on_disconnected(error).await and the match on its answer.
OnDisconnected ==
    /\ pc = "on_disconnected"
    /\ consulted' = consulted + 1
    /\ \E p \in {"Never", "Always", "After"} :
        /\ policy' = p
        /\ CASE p = "Never" -> pc' = "stopped" /\ delay' = 0
             [] p = "Always" -> pc' = "sleep" /\ delay' = DEFAULT_DELAY
             [] p = "After" -> pc' = "sleep" /\ \E d \in Delays : delay' = d
    /\ UNCHANGED <<env, ticks, pings, recv, channels, queue, our_name,
                   identity, socket, handed, result, attempts, failures,
                   sends, consumed, idle, quiet, mark, wanted,
                   join_order>>
    /\ UNCHANGED <<dispatchVars, pureVars>>

\* tokio::time::sleep(delay).await; the loop then starts over.
Sleep ==
    /\ pc = "sleep"
    /\ pc' = "on_connecting"
    /\ delay' = 0
    /\ policy' = None
    /\ result' = None
    /\ UNCHANGED <<env, ticks, pings, recv, channels, queue, our_name,
                   identity, socket, handed, attempts, failures, consulted,
                   sends, consumed, idle, quiet, mark, wanted,
                   join_order>>
    /\ UNCHANGED <<dispatchVars, pureVars>>

\* client.drain_pending_writes(), after a successful Client::connect.
DrainPendingWrites ==
    /\ pc = "drain"
    /\ LET st == Drain(recv, [channels |-> channels, queue |-> queue,
                              wanted |-> wanted, order |-> join_order])
       IN  /\ channels' = st.channels
           /\ queue' = st.queue
           /\ wanted' = st.wanted
           /\ join_order' = st.order
    /\ recv' = <<>>
    /\ pc' = "run"
    /\ UNCHANGED <<env, ticks, pings, our_name, identity, socket, handed,
                   result, policy, delay, attempts, failures, consulted,
                   sends, consumed, idle, quiet, mark>>
    /\ UNCHANGED <<dispatchVars, pureVars>>

(***************************************************************************)
(* Client::run.  Every step of the loop ends in one of three ways; sock is  *)
(* the socket after the writes of the step.                                *)
(***************************************************************************)
\* The loop goes on to its next iteration, where a new timeout starts.
\* traffic: the step read a line or received a request (or run just began).
Continues(sock, traffic) ==
    /\ pc' = "loop"
    /\ socket' = sock
    /\ idle' = 0
    /\ quiet' = IF traffic THEN 0 ELSE quiet
    /\ mark' = IF traffic THEN Len(sock) ELSE mark
    /\ UNCHANGED <<result, failures>>

\* run returns Ok(()): the supervisor breaks out of its loop.
ReturnsOk(sock) ==
    /\ pc' = "stopped"
    /\ result' = "Ok"
    /\ socket' = sock
    /\ idle' = 0
    /\ quiet' = 0
    /\ mark' = 0
    /\ UNCHANGED failures

\* run returns Err(error).
ReturnsErr(sock, error) ==
    /\ Fails(error)
    /\ socket' = sock
    /\ idle' = 0
    /\ quiet' = 0
    /\ mark' = 0

\* Rejoins with the same channel encoded in every iteration.
RejoinsFirstOnly(order, n) == [i \in 1..n |-> Frame("JOIN", order[1])]

\* The frames `for channel in &self.channels` writes for order[1..n].
Rejoins(order, n) == [i \in 1..n |-> Frame("JOIN", order[i])]

\* RunEntry with the result of the JOIN writes dropped (no `?`).
RunEntryIgnoresFailure ==
    /\ pc = "run"
    /\ our_name' = None
    /\ identity' = None
    /\ \E order \in Orders(channels), n \in 0..Cardinality(channels) :
        Continues(socket \o [i \in 1..n |-> Frame("JOIN", order[i])], TRUE)
    /\ UNCHANGED <<env, ticks, pings, recv, channels, queue, handed, policy,
                   delay, attempts, consulted, sends, consumed, wanted,
                   join_order>>
    /\ UNCHANGED <<dispatchVars, pureVars>>

\* The entry of run: the new our_name and PingTracker, then a JOIN for every
\* channel of the JoinedChannelSet, in the order the HashSet iterates; the
\* write after n JOINs fails when n is less than the size of the set.
RunEntry ==
    /\ pc = "run"
    /\ our_name' = None
    /\ identity' = None
    /\ \E order \in Orders(channels), n \in 0..Cardinality(channels) :
        IF n = Cardinality(channels)
        THEN Continues(socket \o Rejoins(order, n), TRUE)
        ELSE ReturnsErr(socket \o Rejoins(order, n), "CannotWrite")
    /\ UNCHANGED <<env, ticks, pings, recv, channels, queue, handed, policy,
                   delay, attempts, consulted, sends, consumed, wanted,
                   join_order>>
    /\ UNCHANGED <<dispatchVars, pureVars>>

\* `Right(Some(kind)) if our_name.is_some()`: the guard of the arm that
\* writes a received request.
GateOpen == our_name # None

\* Left(Some(msg)), msg the ready message: our_name.replace(msg.name).
ReadReady ==
    /\ pc = "loop"
    /\ \E name \in Names : our_name' = name
    /\ handed' = TRUE
    /\ consumed' = TRUE
    /\ Continues(socket, TRUE)
    /\ UNCHANGED <<env, ticks, pings, recv, channels, queue, identity, policy,
                   delay, attempts, consulted, sends, wanted, join_order>>
    /\ UNCHANGED <<dispatchVars, pureVars>>

\* Left(Some(msg)), msg the global identity: the Identity is built from
\* our_name (a panic when it is None), on_connected is called, the
\* PendingQueue is flushed.
ReadGlobalUserState ==
    /\ pc = "loop"
    /\ consumed' = TRUE
    /\ IF our_name = None
       THEN /\ pc' = "panic"
            /\ UNCHANGED <<identity, handed, queue, socket, result, failures,
                           idle, quiet, mark>>
       ELSE /\ identity' = our_name
            /\ handed' = TRUE
            /\ \E fail \in 0..Len(queue) :
                LET f == Flush(queue, socket, fail)
                IN  /\ queue' = f.queue
                    /\ CASE f.result = "Ok" -> ReturnsOk(f.socket)
                         [] f.result = "CannotWrite" ->
                                ReturnsErr(f.socket, "CannotWrite")
                         [] OTHER -> Continues(f.socket, TRUE)
    /\ UNCHANGED <<env, ticks, pings, recv, channels, our_name, policy, delay,
                   attempts, consulted, sends, wanted, join_order>>
    /\ UNCHANGED <<dispatchVars, pureVars>>

\* Left(Some(msg)), msg a PING of the server: pt.update(&msg) keeps its
\* token, the handlers are called, and pt.should_pong() of the next
\* iteration answers with the PONG, whose write may fail.
ReadPing ==
    /\ pc = "loop"
    /\ pings < env.pings
    /\ pings' = pings + 1
    /\ handed' = TRUE
    /\ consumed' = TRUE
    /\ \E ok \in BOOLEAN :
        IF ok
        THEN Continues(Append(socket, Frame("PONG", None)), TRUE)
        ELSE ReturnsErr(socket, "CannotWrite")
    /\ UNCHANGED <<env, ticks, recv, channels, queue, our_name, identity,
                   policy, delay, attempts, consulted, sends, wanted,
                   join_order>>
    /\ UNCHANGED <<dispatchVars, pureVars>>

\* Left(Some(msg)), msg any other message (a chat message, a join, a part):
\* only the handler is called.
ReadOther ==
    /\ pc = "loop"
    /\ handed' = TRUE
    /\ consumed' = TRUE
    /\ Continues(socket, TRUE)
    /\ UNCHANGED <<env, ticks, pings, recv, channels, queue, our_name,
                   identity, policy, delay, attempts, consulted, sends,
                   wanted, join_order>>
    /\ UNCHANGED <<dispatchVars, pureVars>>

\* Left(None): the read failed, the stream ended, or the line did not parse.
ReadFail ==
    /\ pc = "loop"
    /\ ReturnsErr(socket, "CannotRead")
    /\ UNCHANGED <<env, ticks, pings, recv, channels, queue, our_name,
                   identity, handed, policy, delay, attempts, consulted,
                   sends, consumed, wanted, join_order>>
    /\ UNCHANGED <<dispatchVars, pureVars>>

\* Right(Some(kind)): a request received from the Write Queue is written by
\* handle_write when the gate is open, and pushed on the PendingQueue when
\* it is not.
RecvWrite ==
    /\ pc = "loop"
    /\ recv # <<>>
    /\ consumed' = TRUE
    /\ LET kind == Head(recv)
       IN  /\ recv' = Tail(recv)
           /\ wanted' = Wanted(wanted, kind)
           /\ IF GateOpen
              THEN /\ UNCHANGED queue
                   /\ \E ok \in BOOLEAN :
                        IF ~ok
                        THEN ReturnsErr(socket, "CannotWrite")
                        ELSE IF kind.kind = "Quit"
                             THEN ReturnsOk(Append(socket, Encode(kind)))
                             ELSE Continues(Append(socket, Encode(kind)),
                                            TRUE)
              ELSE /\ queue' = Append(queue, kind)
                   /\ Continues(socket, TRUE)
    /\ UNCHANGED <<env, ticks, pings, channels, our_name, identity, handed,
                   policy, delay, attempts, consulted, sends, join_order>>
    /\ UNCHANGED <<dispatchVars, pureVars>>

\* Timeout with the write of the PING left out.
TimeoutWithoutPing ==
    /\ pc = "loop"
    /\ idle = PingDelay
    /\ Continues(socket, FALSE)
    /\ UNCHANGED <<env, ticks, pings, recv, channels, queue, our_name,
                   identity, handed, policy, delay, attempts, consulted,
                   sends, consumed, wanted, join_order>>
    /\ UNCHANGED <<dispatchVars, pureVars>>

\* Err(_) of tokio::time::timeout: ping_delay went by with neither a line
\* nor a request; a keepalive PING is written and the loop continues.
Timeout ==
    /\ pc = "loop"
    /\ idle = PingDelay
    /\ \E ok \in BOOLEAN :
        IF ok
        THEN Continues(Append(socket, Frame("PING", None)), FALSE)
        ELSE ReturnsErr(socket, "CannotWrite")
    /\ UNCHANGED <<env, ticks, pings, recv, channels, queue, our_name,
                   identity, handed, policy, delay, attempts, consulted,
                   sends, consumed, wanted, join_order>>
    /\ UNCHANGED <<dispatchVars, pureVars>>

\* A tick of the clock while the loop waits in the timeout.
Tick ==
    /\ pc = "loop"
    /\ idle < PingDelay
    /\ ticks < env.ticks
    /\ ticks' = ticks + 1
    /\ idle' = idle + 1
    /\ quiet' = quiet + 1
    /\ UNCHANGED <<env, pings, pc, recv, channels, queue, our_name, identity,
                   socket, handed, result, policy, delay, attempts, failures,
                   consulted, sends, consumed, mark, wanted, join_order>>
    /\ UNCHANGED <<dispatchVars, pureVars>>

(***************************************************************************)
(* writer.rs: a collaborator that holds a Writer sends a request.  The      *)
(* receiver lives as long as the Client, that is until `connect` returns.   *)
(***************************************************************************)
WriterSend ==
    /\ handed
    /\ pc \notin {"stopped", "failed", "panic"}
    /\ sends < env.sends
    /\ sends' = sends + 1
    /\ \E kind \in Requests : recv' = Append(recv, kind)
    /\ UNCHANGED <<env, ticks, pings, pc, channels, queue, our_name,
                   identity, socket, handed, result, policy, delay, attempts,
                   failures, consulted, consumed, idle, quiet, mark,
                   wanted, join_order>>
    /\ UNCHANGED <<dispatchVars, pureVars>>

\* The collaborators drop their clones of the Writer.
WriterDrop ==
    /\ handed
    /\ pc \notin {"stopped", "failed", "panic"}
    /\ handed' = FALSE
    /\ UNCHANGED <<env, ticks, pings, pc, recv, channels, queue, our_name,
                   identity, socket, result, policy, delay, attempts,
                   failures, consulted, sends, consumed, idle, quiet, mark,
                   wanted, join_order>>
    /\ UNCHANGED <<dispatchVars, pureVars>>

\* The senders of the Write Queue that are alive: Client::writer, which the
\* Client holds as long as it lives, and the clones of the collaborators.
Producers == 1 + (IF handed THEN 1 ELSE 0)

\* self.recv.recv() yields None: no request is queued and no sender is
\* alive.
RecvNone == recv = <<>> /\ Producers = 0

ClientNext ==
    \/ HandlerInit
    \/ OnConnecting
    \/ ClientConnect
    \/ OnDisconnected
    \/ Sleep
    \/ DrainPendingWrites
    \/ RunEntry
    \/ ReadReady
    \/ ReadGlobalUserState
    \/ ReadPing
    \/ ReadOther
    \/ ReadFail
    \/ RecvWrite
    \/ Timeout
    \/ Tick
    \/ WriterSend
    \/ WriterDrop

(***************************************************************************)
(* crate twitch_message_dispatcher.  A text is the sequence of its          *)
(* characters.                                                             *)
(***************************************************************************)
Space == " "

\* Option::Some(v) and Option::None of a text.
Some(v) == [some |-> TRUE, value |-> v]
Nothing == [some |-> FALSE, value |-> <<>>]

\* str::trim_start, str::trim_end and str::trim.
RECURSIVE TrimStart(_)
TrimStart(s) ==
    IF s # <<>> /\ Head(s) = Space THEN TrimStart(Tail(s)) ELSE s

RECURSIVE TrimEnd(_)
TrimEnd(s) ==
    IF s # <<>> /\ s[Len(s)] = Space
    THEN TrimEnd(SubSeq(s, 1, Len(s) - 1)) ELSE s

Trim(s) == TrimEnd(TrimStart(s))

\* str::eq_ignore_ascii_case on the names of the model.
to_ascii_lowercase(name) == IF name = "Alice" THEN "alice" ELSE name
eq_ignore_ascii_case(a, b) == to_ascii_lowercase(a) = to_ascii_lowercase(b)

(***************************************************************************)
(* command.rs: Access, Command, PrivmsgAccess.                             *)
(***************************************************************************)
Access(kind, of) == [kind |-> kind, of |-> of]

\* Grants with the UserId arm taken for every sender.
GrantsAnyUserId(pm, access) ==
    CASE access.kind = "Moderator" -> "moderator" \in pm.badges
      [] access.kind = "Broadcaster" -> "broadcaster" \in pm.badges
      [] access.kind = "Subscriber" -> "subscriber" \in pm.badges
      [] access.kind = "Vip" -> "vip" \in pm.badges
      [] access.kind = "User" -> eq_ignore_ascii_case(access.of, pm.sender)
      [] access.kind = "UserId" -> TRUE
      [] access.kind = "All" -> TRUE

\* One arm of the match of PrivmsgAccess::is_allowed.
Grants(pm, access) ==
    CASE access.kind = "Moderator" -> "moderator" \in pm.badges
      [] access.kind = "Broadcaster" -> "broadcaster" \in pm.badges
      [] access.kind = "Subscriber" -> "subscriber" \in pm.badges
      [] access.kind = "Vip" -> "vip" \in pm.badges
      [] access.kind = "User" -> eq_ignore_ascii_case(access.of, pm.sender)
      [] access.kind = "UserId" -> access.of = pm.user_id
      [] access.kind = "All" -> TRUE

\* The loop with `_ => return false`: the first entry decides.
first_grants(pm, access) ==
    IF access = <<>> THEN FALSE ELSE Grants(pm, Head(access))

\* The for loop of is_allowed: `return match access { .. => true,
\* _ => continue }`, and false after the last entry.
RECURSIVE any_grants(_, _)
any_grants(pm, access) ==
    IF access = <<>> THEN FALSE
    ELSE IF Grants(pm, Head(access)) THEN TRUE
         ELSE any_grants(pm, Tail(access))

\* PrivmsgAccess::is_allowed: an empty list and a message without a user id
\* allow; otherwise the first entry that grants does.
is_allowed(pm, access) ==
    IF access = <<>> THEN TRUE
    ELSE IF pm.user_id = None THEN TRUE
    ELSE any_grants(pm, access)

\* Command::possible_commands: the command, then its aliases.
possible_commands(cmd) == <<cmd.command>> \o cmd.aliases

\* The for loop of Command::tail over the names cs.
RECURSIVE tail_of(_, _)
tail_of(cs, data) ==
    IF cs = <<>> THEN Nothing
    ELSE LET c == Head(cs)
         IN  IF Len(c) > Len(data) THEN tail_of(Tail(cs), data)
             ELSE IF SubSeq(data, 1, Len(c)) = c
                  THEN Some(Trim(SubSeq(data, Len(c) + 1, Len(data))))
                  ELSE tail_of(Tail(cs), data)

\* Command::tail.
tail(cmd, data) == tail_of(possible_commands(cmd), data)

\* Command::is_command_match.
is_command_match(cmd, query) ==
    \E i \in 1..Len(possible_commands(cmd)) : possible_commands(cmd)[i] = query

(***************************************************************************)
(* example_args.rs: ExampleArgs::extract.                                  *)
(***************************************************************************)
ArgType(key, kind) == [key |-> key, kind |-> kind]

\* ExampleArgs::contains.
contains(arguments, kind) ==
    \E i \in 1..Len(arguments.args) : arguments.args[i].kind = kind

\* extract_slots with a Variadic slot walked like a Required one.
RECURSIVE extract_slots_by_token(_, _, _)
extract_slots_by_token(args, input, map) ==
    IF args = <<>> THEN map
    ELSE LET arg == Head(args)
             pos == Index(input, Space)
         IN  IF pos = 0
             THEN IF input # <<>> THEN (arg.key :> input) @@ map ELSE map
             ELSE extract_slots_by_token(Tail(args),
                                Trim(SubSeq(input, pos, Len(input))),
                                (arg.key :> SubSeq(input, 1, pos - 1)) @@ map)

\* The for loop of extract over the slots args: the map after it.
RECURSIVE extract_slots(_, _, _)
extract_slots(args, input, map) ==
    IF args = <<>> THEN map
    ELSE LET arg == Head(args)
             pos == Index(input, Space)
         IN  IF arg.kind = "Variadic" \/ pos = 0
             THEN IF input # <<>> THEN (arg.key :> input) @@ map ELSE map
             ELSE extract_slots(Tail(args),
                                Trim(SubSeq(input, pos, Len(input))),
                                (arg.key :> SubSeq(input, 1, pos - 1)) @@ map)

\* ExampleArgs::extract: Match::Required, Match::NoMatch or Match::Match(map).
extract(arguments, input) ==
    IF input = <<>> /\ contains(arguments, "Required")
    THEN [kind |-> "Required", map |-> <<>>]
    ELSE IF /\ input = <<>>
            /\ arguments.args # <<>>
            /\ ~contains(arguments, "Optional")
            /\ ~contains(arguments, "Variadic")
         THEN [kind |-> "NoMatch", map |-> <<>>]
         ELSE IF input # <<>> /\ arguments.args = <<>>
              THEN [kind |-> "NoMatch", map |-> <<>>]
              ELSE [kind |-> "Match",
                    map |-> extract_slots(arguments.args, input, <<>>)]

(***************************************************************************)
(* The commands, the bindings and the messages of the model.               *)
(***************************************************************************)
\* The command DispatcherBuilder::with_help builds: "<command?>".
HelpCommand ==
    [id |-> "__help_command", command |-> <<"h">>, aliases |-> <<>>,
     allowed |-> <<>>,
     arguments |-> [usage |-> "<command?>",
                    args |-> <<ArgType("command", "Optional")>>]]

\* A command with an alias, a required argument and an access list.
Hi ==
    [id |-> "hi", command |-> <<"a">>, aliases |-> << <<"b">> >>,
     allowed |-> <<Access("Moderator", None), Access("UserId", "1")>>,
     arguments |-> [usage |-> "<k>", args |-> <<ArgType("k", "Required")>>]]

\* The definition a command file holds for the id of Hi: open to everyone,
\* without the alias and without arguments.
HiLive ==
    [id |-> "hi", command |-> <<"a">>, aliases |-> <<>>,
     allowed |-> <<>>,
     arguments |-> [usage |-> "", args |-> <<>>]]

\* A command of the same name with an optional argument, open to everyone.
Bye ==
    [id |-> "bye", command |-> <<"a">>, aliases |-> <<>>,
     allowed |-> <<>>,
     arguments |-> [usage |-> "<k?>", args |-> <<ArgType("k", "Optional")>>]]

\* BindOptions and BindOptions::default().
BindOptions ==
    [report_invalid_usage : BOOLEAN, report_command_error : BOOLEAN,
     report_access_error : BOOLEAN, use_command_file : BOOLEAN]

Default ==
    [report_invalid_usage |-> TRUE, report_command_error |-> TRUE,
     report_access_error |-> FALSE, use_command_file |-> FALSE]

\* Dispatcher::callables: a binding with a bind-style handler of Hi under
\* the options opts and a listen-style handler, and a second binding with a
\* bind-style handler of Bye.
Bound(opts) ==
    << <<[style |-> "bind", cmd |-> Hi, opts |-> opts],
         [style |-> "listen", cmd |-> Hi, opts |-> Default]>>,
       <<[style |-> "bind", cmd |-> Bye, opts |-> Default]>> >>

\* A handler is <<b, i>>: handler i of binding b.
HandlerIds == {<<1, 1>>, <<1, 2>>, <<2, 1>>}
Binds == {1, 2}
HandlersOf(b) == {h \in HandlerIds : h[1] = b}

\* COMMAND_FILE: not initialized, or the commands of the file last loaded.
CommandFiles ==
    [initialized : {TRUE}, commands : {{}, {HiLive}}]

NoCommandFile == [initialized |-> FALSE, commands |-> {}]

\* The chat messages: text, sender, user id, badges, channel.
Texts ==
    {<<"a">>, <<"b">>, <<"a", " ", "x">>, <<"b", " ", "x">>, <<"h">>,
     <<"h", " ", "a">>, <<"h", "a">>, <<"a", "b">>, <<"x">>}

Senders ==
    {[sender |-> "Alice", user_id |-> "1", badges |-> {}],
     [sender |-> "mallory", user_id |-> "2", badges |-> {}]}

Messages ==
    {[data |-> d, sender |-> s.sender, user_id |-> s.user_id,
      badges |-> s.badges, channel |-> "a"] : d \in Texts, s \in Senders}

NoMessage ==
    [data |-> <<>>, sender |-> None, user_id |-> None, badges |-> {},
     channel |-> None]

\* How a handler the user supplied ends: Outcome without an error, Outcome
\* with an error, or a panic.
Outcomes == {"ok", "error", "panic"}

\* Writer::reply: the request sent.  by is the handler that sent it (<<>>:
\* dispatch_async itself).
SentReply(m, by, text, about) ==
    [kind |-> "Reply", channel |-> m.channel,
     data |-> [text |-> text, about |-> about], by |-> by]

(***************************************************************************)
(* bind.rs: extract_args and check_cmd_access.                             *)
(***************************************************************************)
\* format!("usage: {} {}", cmd.command, cmd.arguments.usage): the pieces of
\* the text, in their order.
UsageError(cmd) ==
    <<"usage: ">> \o cmd.command \o <<" ", cmd.arguments.usage>>

\* Bind::extract_args: Ok(Some(arguments)), Ok(None) or Err(usage).
extract_args(cmd, m) ==
    IF cmd.arguments.args = <<>> /\ is_command_match(cmd, m.data)
    THEN [kind |-> "OkSome", map |-> <<>>, error |-> <<>>]
    ELSE LET t == tail(cmd, m.data)
         IN  IF ~t.some THEN [kind |-> "OkNone", map |-> <<>>, error |-> <<>>]
             ELSE LET found == extract(cmd.arguments, t.value)
                  IN  CASE found.kind = "Required" ->
                                [kind |-> "Err", map |-> <<>>,
                                 error |-> UsageError(cmd)]
                        [] found.kind = "NoMatch" ->
                                [kind |-> "OkNone", map |-> <<>>,
                                 error |-> <<>>]
                        [] found.kind = "Match" ->
                                [kind |-> "OkSome", map |-> found.map,
                                 error |-> <<>>]

\* check_cmd_access with the first arm `Ok(Some(map)) => return Some(map)`.
check_cmd_access_unguarded(cmd, m, opts) ==
    LET allowed == is_allowed(m, cmd.allowed)
        args == extract_args(cmd, m)
    IN  CASE args.kind = "OkSome" -> [some |-> TRUE, replies |-> <<>>]
          [] args.kind = "Err" /\ allowed /\ opts.report_invalid_usage ->
                [some |-> FALSE,
                 replies |-> <<[text |-> "usage", about |-> args.error]>>]
          [] args.kind = "OkNone" -> [some |-> FALSE, replies |-> <<>>]
          [] OTHER ->
                [some |-> FALSE,
                 replies |-> IF opts.report_access_error /\ ~allowed
                             THEN <<[text |-> "you cannot use that command",
                                     about |-> <<>>]>>
                             ELSE <<>>]

\* check_cmd_access with the usage reported whatever report_invalid_usage
\* says.
check_cmd_access_always_reports(cmd, m, opts) ==
    LET allowed == is_allowed(m, cmd.allowed)
        args == extract_args(cmd, m)
    IN  CASE args.kind = "OkSome" /\ allowed ->
                [some |-> TRUE, replies |-> <<>>]
          [] args.kind = "Err" /\ allowed ->
                [some |-> FALSE,
                 replies |-> <<[text |-> "usage", about |-> args.error]>>]
          [] args.kind = "OkNone" -> [some |-> FALSE, replies |-> <<>>]
          [] OTHER ->
                [some |-> FALSE,
                 replies |-> IF opts.report_access_error /\ ~allowed
                             THEN <<[text |-> "you cannot use that command",
                                     about |-> <<>>]>>
                             ELSE <<>>]

\* check_cmd_access with the usage arm taken whoever sent the message and
\* falling through to the access check instead of returning.
check_cmd_access_falls_through(cmd, m, opts) ==
    LET allowed == is_allowed(m, cmd.allowed)
        args == extract_args(cmd, m)
        denial == IF opts.report_access_error /\ ~allowed
                  THEN <<[text |-> "you cannot use that command",
                          about |-> <<>>]>>
                  ELSE <<>>
    IN  CASE args.kind = "OkSome" /\ allowed ->
                [some |-> TRUE, replies |-> <<>>]
          [] args.kind = "Err" /\ opts.report_invalid_usage ->
                [some |-> FALSE,
                 replies |-> <<[text |-> "usage", about |-> args.error]>>
                                \o denial]
          [] args.kind = "OkNone" -> [some |-> FALSE, replies |-> <<>>]
          [] OTHER -> [some |-> FALSE, replies |-> denial]

\* Bind::check_cmd_access: whether it returned Some(arguments), and the
\* replies it sent.
check_cmd_access(cmd, m, opts) ==
    LET allowed == is_allowed(m, cmd.allowed)
        args == extract_args(cmd, m)
    IN  CASE args.kind = "OkSome" /\ allowed ->
                [some |-> TRUE, replies |-> <<>>]
          [] args.kind = "Err" /\ allowed /\ opts.report_invalid_usage ->
                [some |-> FALSE,
                 replies |-> <<[text |-> "usage", about |-> args.error]>>]
          [] args.kind = "OkNone" -> [some |-> FALSE, replies |-> <<>>]
          [] OTHER ->
                [some |-> FALSE,
                 replies |-> IF opts.report_access_error /\ ~allowed
                             THEN <<[text |-> "you cannot use that command",
                                     about |-> <<>>]>>
                             ELSE <<>>]

\* CommandFile::get_ref(&cmd.id) of the wrapper of Bind::bind: the command
\* check_cmd_access is given.
Resolved(handler) ==
    IF /\ handler.opts.use_command_file
       /\ command_file.initialized
       /\ \E c \in command_file.commands : c.id = handler.cmd.id
    THEN CHOOSE c \in command_file.commands : c.id = handler.cmd.id
    ELSE handler.cmd

(***************************************************************************)
(* dispatcher.rs: the help responder.                                      *)
(***************************************************************************)
\* HelpRegistry::lookup: the first entry with that command or alias.
lookup(name) ==
    LET hits == {i \in 1..Len(registry) :
                    is_command_match(registry[i], name)}
    IN  IF hits = {} THEN [some |-> FALSE, value |-> HelpCommand]
        ELSE [some |-> TRUE,
              value |-> registry[CHOOSE i \in hits :
                                    \A j \in hits : i <= j]]

\* Dispatcher::try_send_help: the reply it sends.
try_send_help(args, m) ==
    IF "command" \in DOMAIN args
    THEN LET help == lookup(args["command"])
         IN  IF ~help.some
             THEN SentReply(m, <<>>, "unknown command", args["command"])
             ELSE IF ~is_allowed(m, help.value.allowed)
                  THEN SentReply(m, <<>>, "unknown command",
                                 args["command"])
                  ELSE SentReply(m, <<>>, "describe", help.value.command)
    ELSE LET shown == SelectSeq(registry,
                                LAMBDA c : is_allowed(m, c.allowed))
         IN  SentReply(m, <<>>, "list",
                       [i \in 1..Len(shown) |-> shown[i].command])

\* The condition under which dispatch_async answers with the help and
\* returns: a help command, its tail in the message, a Match of its grammar.
ShortCircuits(m) ==
    /\ help_cmd.some
    /\ tail(help_cmd.value, m.data).some
    /\ extract(help_cmd.value.arguments,
               tail(help_cmd.value, m.data).value).kind = "Match"

(***************************************************************************)
(* dispatcher.rs and bind.rs: one call of Dispatcher::dispatch_async.       *)
(***************************************************************************)
\* The state after DispatcherBuilder::into_dispatcher: a dispatcher with a
\* help command and any options of the first binding, or without one and
\* the default options; the command file and the help registry as the
\* reloads so far left them; no message dispatched yet.
DispatcherInit ==
    /\ help_cmd \in [some : BOOLEAN, value : {HelpCommand}]
    /\ \E opts \in BindOptions :
        /\ help_cmd.some \/ opts = Default
        /\ callables = Bound(opts)
        /\ IF opts.use_command_file
           THEN command_file \in CommandFiles
           ELSE command_file = NoCommandFile
    /\ registry =
        (IF help_cmd.some THEN <<HelpCommand>> ELSE <<>>) \o <<Bye>> \o
        (CASE ~command_file.initialized -> <<Hi>>
           [] command_file.initialized /\ command_file.commands = {} -> <<>>
           [] OTHER -> <<HiLive>>)
    /\ msg = NoMessage
    /\ dpc = "idle"
    /\ bind_task = [b \in Binds |-> "none"]
    /\ task = [h \in HandlerIds |-> "none"]
    /\ lock = [b \in Binds |-> <<>>]
    /\ helped = FALSE
    /\ replied = {}

\* A dispatcher that is never called: what Spec keeps unchanged.
DispatcherUnused ==
    /\ help_cmd = [some |-> FALSE, value |-> HelpCommand]
    /\ callables = Bound(Default)
    /\ command_file = NoCommandFile
    /\ registry = <<Bye, Hi>>
    /\ msg = NoMessage
    /\ dpc = "idle"
    /\ bind_task = [b \in Binds |-> "none"]
    /\ task = [h \in HandlerIds |-> "none"]
    /\ lock = [b \in Binds |-> <<>>]
    /\ helped = FALSE
    /\ replied = {}

\* Handler i of binding b.
Handler(h) == callables[h[1]][h[2]]

\* The task of a handler has ended: its future returned or panicked.
Finished(t) == t \in {"skipped", "ok", "error", "panicked"}

\* Dispatch with the `return` after try_send_help left out.
DispatchWithoutReturn ==
    /\ dpc = "idle"
    /\ \E m \in Messages :
        /\ msg' = m
        /\ IF ShortCircuits(m)
           THEN /\ recv' = Append(recv,
                        try_send_help(
                            extract(help_cmd.value.arguments,
                                    tail(help_cmd.value, m.data).value).map,
                            m))
                /\ helped' = TRUE
           ELSE UNCHANGED <<recv, helped>>
        /\ dpc' = "joining"
        /\ bind_task' = [b \in Binds |-> "spawned"]
    /\ UNCHANGED <<clientRest, help_cmd, callables, command_file, registry,
                   task, lock, replied>>
    /\ UNCHANGED pureVars

\* dispatch_async up to its first await: the help short-circuit, or one task
\* spawned on the JoinSet for every callable.
Dispatch ==
    /\ dpc = "idle"
    /\ \E m \in Messages :
        /\ msg' = m
        /\ IF ShortCircuits(m)
           THEN /\ recv' = Append(recv,
                        try_send_help(
                            extract(help_cmd.value.arguments,
                                    tail(help_cmd.value, m.data).value).map,
                            m))
                /\ helped' = TRUE
                /\ dpc' = "done"
                /\ UNCHANGED bind_task
           ELSE /\ bind_task' = [b \in Binds |-> "spawned"]
                /\ dpc' = "joining"
                /\ UNCHANGED <<recv, helped>>
    /\ UNCHANGED <<clientRest, help_cmd, callables, command_file, registry,
                   task, lock, replied>>
    /\ UNCHANGED pureVars

\* The callable Bind::finish made, up to its first await: one task spawned
\* on its JoinSet for every handler of the binding.
BindRun(b) ==
    /\ bind_task[b] = "spawned"
    /\ bind_task' = [bind_task EXCEPT ![b] = "joining"]
    /\ task' = [h \in HandlerIds |->
                    IF h[1] = b THEN "spawned" ELSE task[h]]
    /\ UNCHANGED <<clientVars, help_cmd, callables, command_file, registry,
                   msg, dpc, lock, helped, replied>>
    /\ UNCHANGED pureVars

\* The wrapper of Bind::bind up to the await of the handler: the command is
\* resolved, check_cmd_access decides, and the handler is called or the
\* wrapper returns.
CheckAccess(h) ==
    /\ Handler(h).style = "bind"
    /\ task[h] = "spawned"
    /\ LET cmd == Resolved(Handler(h))
           checked == check_cmd_access(cmd, msg, Handler(h).opts)
       IN  /\ recv' = recv \o
                [i \in 1..Len(checked.replies) |->
                    SentReply(msg, h, checked.replies[i].text,
                              checked.replies[i].about)]
           /\ task' = [task EXCEPT ![h] =
                        IF checked.some THEN "invoked" ELSE "skipped"]
    /\ UNCHANGED <<clientRest, help_cmd, callables, command_file, registry,
                   msg, dpc, bind_task, lock, helped, replied>>
    /\ UNCHANGED pureVars

\* Listen with the access list of the binding's command consulted first.
ListenGated(h) ==
    /\ Handler(h).style = "listen"
    /\ task[h] = "spawned"
    /\ lock[h[1]] = <<>>
    /\ IF is_allowed(msg, Handler(h).cmd.allowed)
       THEN /\ lock' = [lock EXCEPT ![h[1]] = h]
            /\ task' = [task EXCEPT ![h] = "invoked"]
       ELSE /\ task' = [task EXCEPT ![h] = "skipped"]
            /\ UNCHANGED lock
    /\ UNCHANGED <<clientVars, help_cmd, callables, command_file, registry,
                   msg, dpc, bind_task, helped, replied>>
    /\ UNCHANGED pureVars

\* The wrapper of Bind::listen up to the await of the handler:
\* this.lock().await, then the handler is called.
Listen(h) ==
    /\ Handler(h).style = "listen"
    /\ task[h] = "spawned"
    /\ lock[h[1]] = <<>>
    /\ lock' = [lock EXCEPT ![h[1]] = h]
    /\ task' = [task EXCEPT ![h] = "invoked"]
    /\ UNCHANGED <<clientVars, help_cmd, callables, command_file, registry,
                   msg, dpc, bind_task, helped, replied>>
    /\ UNCHANGED pureVars

\* A handler that was called replies through the Writer it was given.
HandlerReplies(h) ==
    /\ task[h] = "invoked"
    /\ recv' = Append(recv, SentReply(msg, h, "handler", <<>>))
    /\ replied' = replied \cup {h}
    /\ task' = [task EXCEPT ![h] = "replied"]
    /\ UNCHANGED <<clientRest, help_cmd, callables, command_file, registry,
                   msg, dpc, bind_task, lock, helped>>
    /\ UNCHANGED pureVars

\* Joined with the JoinError of a panicked task unwrapped.
JoinedUnwrapping(outcome) ==
    IF outcome = "panic"
    THEN dpc' = "done" /\ bind_task' = [b \in Binds |-> "done"]
    ELSE UNCHANGED <<dpc, bind_task>>

\* `while let Some(..) = set.join_next().await {}` of Bind::finish and of
\* dispatch_async: the result of a joined task, a JoinError included, is
\* dropped.
Joined(outcome) == UNCHANGED <<dpc, bind_task>>

\* A handler that was called ends; the wrapper reports the error of its
\* Outcome when report_command_error is set, and the guard of a listen-style
\* wrapper is dropped.
HandlerReturns(h) ==
    /\ task[h] \in {"invoked", "replied"}
    /\ \E outcome \in Outcomes :
        /\ task' = [task EXCEPT ![h] =
                        CASE outcome = "ok" -> "ok"
                          [] outcome = "error" -> "error"
                          [] outcome = "panic" -> "panicked"]
        /\ recv' = IF outcome = "error" /\ Handler(h).opts.report_command_error
                   THEN Append(recv, SentReply(msg, h, "error", <<>>))
                   ELSE recv
        /\ Joined(outcome)
    /\ lock' = IF Handler(h).style = "listen"
               THEN [lock EXCEPT ![h[1]] = <<>>] ELSE lock
    /\ UNCHANGED <<clientRest, help_cmd, callables, command_file, registry,
                   msg, helped, replied>>
    /\ UNCHANGED pureVars

\* join_next of Bind::finish answered None: the task of the binding ends.
BindJoin(b) ==
    /\ bind_task[b] = "joining"
    /\ \A h \in HandlersOf(b) : Finished(task[h])
    /\ bind_task' = [bind_task EXCEPT ![b] = "done"]
    /\ UNCHANGED <<clientVars, help_cmd, callables, command_file, registry,
                   msg, dpc, task, lock, helped, replied>>
    /\ UNCHANGED pureVars

\* DispatchJoin with a single join_next in place of the loop: dispatch_async
\* returns when the task of one binding has ended.
DispatchJoinOnce ==
    /\ dpc = "joining"
    /\ \E b \in Binds : bind_task[b] = "done"
    /\ dpc' = "done"
    /\ UNCHANGED <<clientVars, help_cmd, callables, command_file, registry,
                   msg, bind_task, task, lock, helped, replied>>
    /\ UNCHANGED pureVars

\* join_next of dispatch_async answered None: dispatch_async returns.
DispatchJoin ==
    /\ dpc = "joining"
    /\ \A b \in Binds : bind_task[b] = "done"
    /\ dpc' = "done"
    /\ UNCHANGED <<clientVars, help_cmd, callables, command_file, registry,
                   msg, bind_task, task, lock, helped, replied>>
    /\ UNCHANGED pureVars

DispatchNext ==
    \/ Dispatch
    \/ \E b \in Binds : BindRun(b)
    \/ \E h \in HandlerIds : CheckAccess(h)
    \/ \E h \in HandlerIds : Listen(h)
    \/ \E h \in HandlerIds : HandlerReplies(h)
    \/ \E h \in HandlerIds : HandlerReturns(h)
    \/ \E b \in Binds : BindJoin(b)
    \/ DispatchJoin

\* No function is under check: what Spec and DispatchSpec keep unchanged.
PureUnused ==
    /\ call = [fn |-> None]
    /\ ret = [done |-> FALSE]

Init == ClientInit /\ DispatcherUnused /\ PureUnused


Next == ClientNext

Spec == Init /\ [][Next]_vars

\* One dispatch, with a connection manager that is not started.
\* A connection manager that is not started.
ClientUnused == ClientInit /\ env.ticks = 0

DispatchInit == ClientUnused /\ DispatcherInit /\ PureUnused

DispatchSpec == DispatchInit /\ [][DispatchNext]_vars

\* One dispatch of a dispatcher with a help command and the default
\* options, on a runtime that keeps running the tasks that can run, with
\* handlers that end.
DispatchFairInit ==
    /\ DispatchInit
    /\ help_cmd.some
    /\ callables = Bound(Default)

DispatchFairSpec ==
    DispatchFairInit /\ [][DispatchNext]_vars /\ WF_vars(DispatchNext)

(***************************************************************************)
(* command.rs: PrivmsgAccess::is_allowed called on an access list and a     *)
(* message.                                                                *)
(***************************************************************************)
\* The longest access list.
MaxAccess == 2

\* The entries of the access lists.
Predicates ==
    {Access("Moderator", None), Access("Broadcaster", None),
     Access("Subscriber", None), Access("Vip", None),
     Access("User", "alice"), Access("UserId", "1"), Access("UserId", "2"),
     Access("All", None)}

AccessLists == UNION {[1..n -> Predicates] : n \in 0..MaxAccess}

\* The senders: name, user id (None: the message carries none), badges.
Badges == {"moderator", "broadcaster", "subscriber", "vip"}

AccessSenders ==
    [sender : {"Alice", "bob"}, user_id : {None, "1", "2"},
     badges : SUBSET Badges]

AccessInit ==
    /\ ClientUnused
    /\ DispatcherUnused
    /\ call \in [fn : {"is_allowed"}, access : AccessLists,
                 pm : AccessSenders]
    /\ ret = [done |-> FALSE]

\* pm.is_allowed(&access).
IsAllowed ==
    /\ call.fn = "is_allowed"
    /\ ~ret.done
    /\ ret' = [done |-> TRUE, value |-> is_allowed(call.pm, call.access)]
    /\ UNCHANGED <<clientVars, dispatchVars, call>>

AccessNext == IsAllowed

AccessSpec == AccessInit /\ [][AccessNext]_vars

(***************************************************************************)
(* bind.rs and example_args.rs: extract_args called on the message of an   *)
(* alias and on the message of the command name; extract called on a tail.  *)
(***************************************************************************)
\* The most aliases of a command.
MaxAliases == 2

\* The names commands and aliases have.
CommandNames == {<<"a">>, <<"a", "b">>, <<"h", "i">>}

\* The alias lists: CommandBuilder::alias keeps each alias once.
AliasLists ==
    {l \in UNION {[1..n -> CommandNames] : n \in 1..MaxAliases} :
        \A i, j \in 1..Len(l) : i # j => l[i] # l[j]}

\* The grammars: "", "<k>", "<a> <b>", "<k?>", "<k..>", "<a> <b?> <c..>".
Grammars ==
    {[usage |-> "", args |-> <<>>],
     [usage |-> "<k>", args |-> <<ArgType("k", "Required")>>],
     [usage |-> "<a> <b>",
      args |-> <<ArgType("a", "Required"), ArgType("b", "Required")>>],
     [usage |-> "<k?>", args |-> <<ArgType("k", "Optional")>>],
     [usage |-> "<k..>", args |-> <<ArgType("k", "Variadic")>>],
     [usage |-> "<a> <b?> <c..>",
      args |-> <<ArgType("a", "Required"), ArgType("b", "Optional"),
                 ArgType("c", "Variadic")>>]}

\* The tails, trimmed as Command::tail leaves them: "", "x", "x y",
\* "x  y", "x y z w".
Tails ==
    {<<>>, <<"x">>, <<"x", " ", "y">>, <<"x", " ", " ", "y">>,
     <<"x", " ", "y", " ", "z", " ", "w">>}

ExtractCommands ==
    [id : {"c"}, command : CommandNames, aliases : AliasLists,
     allowed : {<<>>}, arguments : Grammars]

\* The text of the message "name t".
Said(name, t) == IF t = <<>> THEN name ELSE name \o <<Space>> \o t

\* A result of extraction, its map as the set of its entries.
Entries(found) ==
    [kind |-> found.kind,
     entries |-> {<<k, found.map[k]>> : k \in DOMAIN found.map}]

ExtractInit ==
    /\ ClientUnused
    /\ DispatcherUnused
    /\ \/ /\ call \in [fn : {"extract_args"}, cmd : ExtractCommands,
                       alias : 1..MaxAliases, t : Tails]
          /\ call.alias <= Len(call.cmd.aliases)
       \/ call \in [fn : {"extract"}, arguments : Grammars,
                    t : Tails \ {<<>>}]
    /\ ret = [done |-> FALSE]

\* Bind::extract_args for the message of the alias and for the message of
\* the command name.
ExtractArgs ==
    /\ call.fn = "extract_args"
    /\ ~ret.done
    /\ ret' =
        [done |-> TRUE,
         by_alias |->
            Entries(extract_args(call.cmd,
                [data |-> Said(call.cmd.aliases[call.alias], call.t)])),
         by_name |->
            Entries(extract_args(call.cmd,
                [data |-> Said(call.cmd.command, call.t)]))]
    /\ UNCHANGED <<clientVars, dispatchVars, call>>

\* ExampleArgs::extract for a tail that is not empty.
Extract ==
    /\ call.fn = "extract"
    /\ ~ret.done
    /\ ret' = [done |-> TRUE,
               found |-> Entries(extract(call.arguments, call.t))]
    /\ UNCHANGED <<clientVars, dispatchVars, call>>

ExtractNext == ExtractArgs \/ Extract

ExtractSpec == ExtractInit /\ [][ExtractNext]_vars

(***************************************************************************)
(* dispatcher.rs and help.rs: try_send_help called for the same request    *)
(* under one help registry and then under another.                         *)
(***************************************************************************)
\* A command of the name of Bye that only the broadcaster may use; its id
\* sorts before the id of Bye.
Admin ==
    [id |-> "adm", command |-> <<"a">>, aliases |-> <<>>,
     allowed |-> <<Access("Broadcaster", None)>>,
     arguments |-> [usage |-> "", args |-> <<>>]]

\* A command of a name of its own that only the broadcaster may use.
Solo ==
    [id |-> "solo", command |-> <<"c">>, aliases |-> <<>>,
     allowed |-> <<Access("Broadcaster", None)>>,
     arguments |-> [usage |-> "", args |-> <<>>]]

\* The commands that register puts into the registry, in the order of
\* their ids: the BTreeMap iterates in this order.
Registered == <<HelpCommand, Admin, Bye, Hi, Solo>>

\* The registries: the commands of a set of ids, in the order of the ids.
HelpRegistries ==
    {SelectSeq(Registered, LAMBDA c : c.id \in ids) :
        ids \in SUBSET {Registered[i].id : i \in 1..Len(Registered)}}

\* The names a help request asks about; "z" is no command.
Asked == {<<"a">>, <<"b">>, <<"c">>, <<"z">>}

\* The arguments of a help request: without a name, or with one.
HelpArgs == {<<>>} \cup {"command" :> name : name \in Asked}

\* The help requests: the message "h" or "h name" of a sender.
HelpRequests ==
    {[args |-> a,
      m |-> [data |-> IF a = <<>> THEN <<"h">>
                      ELSE Said(<<"h">>, a["command"]),
             sender |-> s.sender, user_id |-> s.user_id,
             badges |-> s.badges, channel |-> "a"]] :
        a \in HelpArgs, s \in Senders}

\* The variables of the dispatcher other than the registry.
dispatchRest ==
    <<help_cmd, callables, command_file, msg, dpc, bind_task, task, lock,
      helped, replied>>

HelpInit ==
    /\ ClientUnused
    /\ help_cmd = [some |-> TRUE, value |-> HelpCommand]
    /\ callables = Bound(Default)
    /\ command_file = NoCommandFile
    /\ msg = NoMessage
    /\ dpc = "idle"
    /\ bind_task = [b \in Binds |-> "none"]
    /\ task = [h \in HandlerIds |-> "none"]
    /\ lock = [b \in Binds |-> <<>>]
    /\ helped = FALSE
    /\ replied = {}
    /\ \E r \in HelpRequests, first, second \in HelpRegistries :
        /\ call = [fn |-> "try_send_help", args |-> r.args, m |-> r.m,
                   registries |-> <<first, second>>]
        /\ registry = first
    /\ ret = [done |-> FALSE, replies |-> <<>>]

\* Dispatcher::try_send_help under the first registry; the second registry
\* takes its place.
TrySendHelp ==
    /\ call.fn = "try_send_help"
    /\ ret.replies = <<>>
    /\ ret' = [done |-> FALSE,
               replies |-> <<try_send_help(call.args, call.m)>>]
    /\ registry' = call.registries[2]
    /\ UNCHANGED <<clientVars, dispatchRest, call>>

\* Dispatcher::try_send_help for the same request under the second
\* registry.
TrySendHelpAgain ==
    /\ call.fn = "try_send_help"
    /\ Len(ret.replies) = 1
    /\ ret' = [done |-> TRUE,
               replies |-> Append(ret.replies,
                                  try_send_help(call.args, call.m))]
    /\ UNCHANGED <<clientVars, dispatchVars, call>>

HelpNext == TrySendHelp \/ TrySendHelpAgain

HelpSpec == HelpInit /\ [][HelpNext]_vars

(***************************************************************************)
(* example_args.rs: a usage string compiled by ExampleArgs::from_str, and  *)
(* the usage of the grammar compiled again.                                *)
(***************************************************************************)
\* The bytes all_alpha accepts in a key: A-Z, a-z, 0-9, _ and -.
KeyBytes ==
    {"A", "B", "C", "D", "E", "F", "G", "H", "I", "J", "K", "L", "M",
     "N", "O", "P", "Q", "R", "S", "T", "U", "V", "W", "X", "Y", "Z",
     "a", "b", "c", "d", "e", "f", "g", "h", "i", "j", "k", "l", "m",
     "n", "o", "p", "q", "r", "s", "t", "u", "v", "w", "x", "y", "z",
     "0", "1", "2", "3", "4", "5", "6", "7", "8", "9", "_", "-"}

all_alpha(s) == \A i \in 1..Len(s) : s[i] \in KeyBytes

\* ExampleError.
EmptyInput == [kind |-> "EmptyInput"]
InvalidKey(key) == [kind |-> "InvalidKey", key |-> key]
Duplicate(key) == [kind |-> "Duplicate", key |-> key]
MultipleVariadic(keys) == [kind |-> "MultipleVariadic", keys |-> keys]
OptionalBeforeRequired(key) == [kind |-> "OptionalBeforeRequired", key |-> key]
VariadicNotInTail(key) == [kind |-> "VariadicNotInTail", key |-> key]

Ok(value) == [ok |-> TRUE, value |-> value]
Err(error) == [ok |-> FALSE, error |-> error]

\* str::split_whitespace: the maximal runs without a space, in order.
RECURSIVE split_whitespace(_)
split_whitespace(s) ==
    LET t == TrimStart(s)
        pos == Index(t, Space)
    IN  IF t = <<>> THEN <<>>
        ELSE IF pos = 0 THEN <<t>>
        ELSE <<SubSeq(t, 1, pos - 1)>>
                \o split_whitespace(SubSeq(t, pos, Len(t)))

\* The match on token.as_bytes(): the kind of the slot and its key, or no
\* slot.  The patterns are tried in this order.
Slot(token) ==
    LET n == Len(token)
    IN  IF n >= 4 /\ token[1] = "<" /\ token[n - 2] = "."
            /\ token[n - 1] = "." /\ token[n] = ">"
        THEN [some |-> TRUE, kind |-> "Variadic",
              key |-> SubSeq(token, 2, n - 3)]
        ELSE IF n >= 3 /\ token[1] = "<" /\ token[n - 1] = "?"
                /\ token[n] = ">"
        THEN [some |-> TRUE, kind |-> "Optional",
              key |-> SubSeq(token, 2, n - 2)]
        ELSE IF n >= 2 /\ token[1] = "<" /\ token[n] = ">"
        THEN [some |-> TRUE, kind |-> "Required",
              key |-> SubSeq(token, 2, n - 1)]
        ELSE [some |-> FALSE, kind |-> None, key |-> <<>>]

\* The loop of from_str over the tokens: the slots, or the first error.
\* append reports a key seen before; all_alpha then reports a byte that no
\* key may hold; a token that is no slot is passed over.
RECURSIVE from_tokens(_, _, _)
from_tokens(tokens, seen, args) ==
    IF tokens = <<>> THEN Ok(args)
    ELSE LET slot == Slot(Head(tokens))
         IN  IF ~slot.some THEN from_tokens(Tail(tokens), seen, args)
             ELSE IF slot.key \in seen THEN Err(Duplicate(slot.key))
             ELSE IF ~all_alpha(slot.key) THEN Err(InvalidKey(slot.key))
             ELSE from_tokens(Tail(tokens), seen \cup {slot.key},
                              Append(args, ArgType(slot.key, slot.kind)))

\* The keys of the Variadic slots, in order.
VariadicKeys(args) ==
    LET variadic == SelectSeq(args, LAMBDA a : a.kind = "Variadic")
    IN  [i \in 1..Len(variadic) |-> variadic[i].key]

\* validate_from without the report of an Optional slot before a Required
\* one.
RECURSIVE validate_from_variadic_only(_, _)
validate_from_variadic_only(args, i) ==
    IF i > Len(args) THEN Ok(<<>>)
    ELSE IF args[i].kind = "Variadic" /\ i < Len(args)
    THEN Err(VariadicNotInTail(args[i].key))
    ELSE validate_from_variadic_only(args, i + 1)

\* The while loop of validate from slot i on.
RECURSIVE validate_from(_, _)
validate_from(args, i) ==
    IF i > Len(args) THEN Ok(<<>>)
    ELSE IF /\ args[i].kind = "Optional"
            /\ i < Len(args)
            /\ args[i + 1].kind = "Required"
    THEN Err(OptionalBeforeRequired(args[i].key))
    ELSE IF args[i].kind = "Variadic" /\ i < Len(args)
    THEN Err(VariadicNotInTail(args[i].key))
    ELSE validate_from(args, i + 1)

\* validate without the count of the Variadic slots.
validate_single_pass(args) == validate_from(args, 1)

\* ExampleArgs::validate.
validate(args) ==
    IF Len(VariadicKeys(args)) > 1
    THEN Err(MultipleVariadic(VariadicKeys(args)))
    ELSE validate_from(args, 1)

\* from_str with the input as it was given for the usage.
from_str_keeps_input(input) ==
    LET trimmed == Trim(input)
        parsed == from_tokens(split_whitespace(trimmed), {}, <<>>)
    IN  IF trimmed = <<>> THEN Err(EmptyInput)
        ELSE IF ~parsed.ok THEN parsed
        ELSE IF ~validate(parsed.value).ok THEN validate(parsed.value)
        ELSE Ok([usage |-> input, args |-> parsed.value])

\* ExampleArgs::from_str.
from_str(input) ==
    LET trimmed == Trim(input)
        parsed == from_tokens(split_whitespace(trimmed), {}, <<>>)
    IN  IF trimmed = <<>> THEN Err(EmptyInput)
        ELSE IF ~parsed.ok THEN parsed
        ELSE IF ~validate(parsed.value).ok THEN validate(parsed.value)
        ELSE Ok([usage |-> trimmed, args |-> parsed.value])

\* The most tokens of a usage string.
MaxTokens == 4

\* The key that the slot written as token i has.
KeyNames == <<"a", "b", "c", "d", "e">>

\* What token i of a usage string is: a slot of one of the three kinds with
\* the key of its place, a Variadic slot with the key of the first place, a
\* slot without a key, a slot with a byte no key may hold, or a word that
\* is no slot.
UsageTokens(i) ==
    {<<"<", KeyNames[i], ">">>, <<"<", KeyNames[i], "?", ">">>,
     <<"<", KeyNames[i], ".", ".", ">">>,
     <<"<", "a", ".", ".", ">">>,
     <<"<", ">">>, <<"<", "a", "!", ">">>, <<"x">>}

RECURSIVE TokenSeqs(_)
TokenSeqs(n) ==
    IF n = 0 THEN {<<>>}
    ELSE {Append(tokens, t) : tokens \in TokenSeqs(n - 1),
                              t \in UsageTokens(n)}

\* The spaces around and between the tokens.
Spacings ==
    {[lead |-> <<>>, between |-> <<Space>>, trail |-> <<>>],
     [lead |-> <<Space>>, between |-> <<Space>>, trail |-> <<Space>>],
     [lead |-> <<>>, between |-> <<Space, Space>>, trail |-> <<>>]}

RECURSIVE Joined_by(_, _)
Joined_by(tokens, between) ==
    IF tokens = <<>> THEN <<>>
    ELSE IF Len(tokens) = 1 THEN tokens[1]
    ELSE tokens[1] \o between \o Joined_by(Tail(tokens), between)

\* The usage strings.
Usages ==
    {sp.lead \o Joined_by(tokens, sp.between) \o sp.trail :
        tokens \in UNION {TokenSeqs(n) : n \in 0..MaxTokens},
        sp \in Spacings}

GrammarInit ==
    /\ ClientUnused
    /\ DispatcherUnused
    /\ call \in [fn : {"from_str"}, input : Usages]
    /\ ret = [done |-> FALSE]

\* input.parse::<ExampleArgs>().
FromStr ==
    /\ call.fn = "from_str"
    /\ ~ret.done
    /\ ret' = [done |-> TRUE, again |-> FALSE,
               parsed |-> from_str(call.input)]
    /\ UNCHANGED <<clientVars, dispatchVars, call>>

\* The usage of the grammar, as Command::serialize writes it, parsed again.
FromStrAgain ==
    /\ call.fn = "from_str"
    /\ ret.done
    /\ ~ret.again
    /\ ret.parsed.ok
    /\ ret' = [done |-> TRUE, again |-> TRUE, parsed |-> ret.parsed,
               rendered |-> ret.parsed.value.usage,
               reparsed |-> from_str(ret.parsed.value.usage)]
    /\ UNCHANGED <<clientVars, dispatchVars, call>>

GrammarNext == FromStr \/ FromStrAgain

GrammarSpec == GrammarInit /\ [][GrammarNext]_vars

(***************************************************************************)
(* client.rs: Client::handle_write called on a Privmsg or Reply request    *)
(* with a body.  A body is the sequence of its characters.                 *)
(***************************************************************************)
\* The longest body.
MaxBody == 5

Newline == "\n"
Return == "\r"

\* The characters char::is_whitespace holds of, among those of the model.
WhiteSpace == {Space, Newline, Return}

\* str::trim: without the leading and the trailing whitespace.
RECURSIVE trim_start(_)
trim_start(s) ==
    IF s # <<>> /\ Head(s) \in WhiteSpace THEN trim_start(Tail(s)) ELSE s

RECURSIVE trim_end(_)
trim_end(s) ==
    IF s # <<>> /\ s[Len(s)] \in WhiteSpace
    THEN trim_end(SubSeq(s, 1, Len(s) - 1)) ELSE s

trim(s) == trim_end(trim_start(s))

\* str::split('\n'): the parts between the newlines, in order; one more
\* part than there are newlines.
RECURSIVE split(_, _)
split(s, sep) ==
    LET pos == Index(s, sep)
    IN  IF pos = 0 THEN <<s>>
        ELSE <<SubSeq(s, 1, pos - 1)>>
                \o split(SubSeq(s, pos + 1, Len(s)), sep)

\* twitch_message::encode::privmsg(target, data) and reply(id, target,
\* data): the line that is written.
Line(kind, target, data) == [kind |-> kind, channel |-> target, data |-> data]

\* The `for part in data.split('\n')` loop without the trim of the part.
RECURSIVE write_parts_untrimmed(_, _, _, _)
write_parts_untrimmed(kind, target, parts, fail) ==
    IF parts = <<>> THEN [frames |-> <<>>, result |-> "Ok"]
    ELSE IF fail = 1 THEN [frames |-> <<>>, result |-> "CannotWrite"]
    ELSE LET rest == write_parts_untrimmed(kind, target, Tail(parts),
                                 IF fail = 0 THEN 0 ELSE fail - 1)
         IN  [frames |-> <<Line(kind, target, Head(parts))>> \o rest.frames,
              result |-> rest.result]

\* The `for part in data.split('\n')` loop of handle_write over the parts:
\* Self::write(conn, privmsg(target, part.trim()), buf).await? for each.
\* fail is the number of the write that fails (0: none does).
RECURSIVE write_parts(_, _, _, _)
write_parts(kind, target, parts, fail) ==
    IF parts = <<>> THEN [frames |-> <<>>, result |-> "Ok"]
    ELSE IF fail = 1 THEN [frames |-> <<>>, result |-> "CannotWrite"]
    ELSE LET rest == write_parts(kind, target, Tail(parts),
                                 IF fail = 0 THEN 0 ELSE fail - 1)
         IN  [frames |-> <<Line(kind, target, trim(Head(parts)))>>
                            \o rest.frames,
              result |-> rest.result]

\* Client::handle_write for a Privmsg or Reply request: the frames written
\* and the result.
handle_write(req, fail) ==
    write_parts(IF req.kind = "Privmsg" THEN "PRIVMSG" ELSE "REPLY",
                req.target, split(req.data, Newline), fail)

\* The bodies: the texts of "x", the space, the newline and the return.
Bodies ==
    UNION {[1..n -> {"x", Space, Newline, Return}] : n \in 0..MaxBody}

HandleWriteInit ==
    /\ ClientUnused
    /\ DispatcherUnused
    /\ call \in [fn : {"handle_write"},
                 req : [kind : {"Privmsg", "Reply"}, target : {"a"},
                        data : Bodies]]
    /\ ret = [done |-> FALSE]

\* Self::handle_write(&mut write, &kind, &mut self.buf).await, every write
\* succeeding or one of them failing.
HandleWrite ==
    /\ call.fn = "handle_write"
    /\ ~ret.done
    /\ \E fail \in 0..Len(split(call.req.data, Newline)) :
        ret' = [done |-> TRUE, fail |-> fail,
                written |-> handle_write(call.req, fail)]
    /\ UNCHANGED <<clientVars, dispatchVars, call>>

HandleWriteNext == HandleWrite

HandleWriteSpec == HandleWriteInit /\ [][HandleWriteNext]_vars

(***************************************************************************)
(* client.rs: the arm Left(Some(msg)) of the loop of Client::run, for one  *)
(* parsed message.  What the arm does is the sequence of its events: the   *)
(* calls of the handler and the frames written.                            *)
(***************************************************************************)
\* The longest PendingQueue when the message arrives.
MaxPending == 3

\* The parsed messages: the ready message, the global identity with or
\* without a user id, a join or a part of a user, a chat message, any other.
Inbound ==
    {[kind |-> "Ready", user |-> "bot", user_id |-> None],
     [kind |-> "GlobalUserState", user |-> None, user_id |-> "1"],
     [kind |-> "GlobalUserState", user |-> None, user_id |-> None],
     [kind |-> "Privmsg", user |-> "eve", user_id |-> "2"],
     [kind |-> "Other", user |-> None, user_id |-> None]}
        \cup [kind : {"Join", "Part"}, user : {"bot", "eve"},
              user_id : {None}]

\* The calls of the handler and the write of a frame, as events.
Calls(name) == [call |-> name]
Writes(frame) == [call |-> "write", frame |-> frame]

\* The arm without the call of on_privmsg.
forward_catch_all_only(m) == <<Calls("on_twitch_message")>>

\* Lines 217-225: on_privmsg when the message is a chat message, then
\* on_twitch_message.
forward(m) ==
    (IF m.kind = "Privmsg" THEN <<Calls("on_privmsg")>> ELSE <<>>)
        \o <<Calls("on_twitch_message")>>

\* The arm Left(Some(msg)): [events, our_name, queue, outcome].  outcome is
\* "continue" when the loop goes on, "Ok" or "CannotWrite" when run
\* returns, "panic" when an expect fails.  fail is the number of the
\* handle_write of the flush that fails (0: none does).
left_some(m, name, q, fail) ==
    CASE m.kind = "Ready" ->
            [events |-> forward(m), our_name |-> m.user, queue |-> q,
             outcome |-> "continue"]
      [] m.kind = "GlobalUserState" ->
            IF m.user_id = None \/ name = None
            THEN [events |-> <<>>, our_name |-> name, queue |-> q,
                  outcome |-> "panic"]
            ELSE LET f == Flush(q, <<>>, fail)
                     flushed == <<Calls("on_connected")>>
                        \o [i \in 1..Len(f.socket) |-> Writes(f.socket[i])]
                 IN  IF f.result = None
                     THEN [events |-> flushed \o forward(m),
                           our_name |-> name, queue |-> f.queue,
                           outcome |-> "continue"]
                     ELSE [events |-> flushed, our_name |-> name,
                           queue |-> f.queue, outcome |-> f.result]
      [] m.kind = "Join" ->
            [events |-> (IF name = m.user THEN <<Calls("on_join")>>
                         ELSE <<>>) \o forward(m),
             our_name |-> name, queue |-> q, outcome |-> "continue"]
      [] m.kind = "Part" ->
            [events |-> (IF name = m.user THEN <<Calls("on_part")>>
                         ELSE <<>>) \o forward(m),
             our_name |-> name, queue |-> q, outcome |-> "continue"]
      [] OTHER ->
            [events |-> forward(m), our_name |-> name, queue |-> q,
             outcome |-> "continue"]

\* The PendingQueues: the requests the loop pushed while our_name was None
\* and those drain_pending_writes pushed.
PendingQueues ==
    UNION {[1..n -> {Privmsg, Raw, Quit, Join("a")}] : n \in 0..MaxPending}

LineInit ==
    /\ ClientUnused
    /\ DispatcherUnused
    /\ call \in [fn : {"left_some"}, msg : Inbound,
                 our_name : {None, "bot"}, queue : PendingQueues]
    /\ ret = [done |-> FALSE]

\* One iteration of the loop that reads the message call.msg.
LeftSome ==
    /\ call.fn = "left_some"
    /\ ~ret.done
    /\ \E fail \in 0..Len(call.queue) :
        /\ fail # 0 => call.msg.kind = "GlobalUserState"
        /\ ret' = [done |-> TRUE, fail |-> fail,
                   arm |-> left_some(call.msg, call.our_name, call.queue,
                                     fail)]
    /\ UNCHANGED <<clientVars, dispatchVars, call>>

LineNext == LeftSome

LineSpec == LineInit /\ [][LineNext]_vars

(***************************************************************************)
(* command.rs: a Command built by CommandBuilder: Command::builder, the    *)
(* calls of alias, then build.                                             *)
(***************************************************************************)
\* The most calls of CommandBuilder::alias on one builder.
MaxAdds == 3

\* Command::builder(id, command, description): the three texts trimmed,
\* no alias seen or kept yet.
builder(id, command, description) ==
    [id |-> Trim(id), command |-> Trim(command),
     description |-> Trim(description), aliases |-> <<>>, seen |-> {}]

\* CommandBuilder::alias without the look at seen.
alias_always_pushes(b, a) ==
    [b EXCEPT !.seen = b.seen \cup {a}, !.aliases = Append(b.aliases, a)]

\* CommandBuilder::alias: the alias is pushed when seen.insert(alias) says
\* it was not there.
alias(b, a) ==
    IF a \notin b.seen
    THEN [b EXCEPT !.seen = b.seen \cup {a}, !.aliases = Append(b.aliases, a)]
    ELSE b

\* The calls of alias for the aliases added, in order.
RECURSIVE aliased(_, _)
aliased(b, added) ==
    IF added = <<>> THEN b ELSE aliased(alias(b, Head(added)), Tail(added))

\* CommandBuilder::build.
build(b) ==
    IF b.id = <<>> THEN Err("MissingId")
    ELSE IF b.command = <<>> THEN Err("MissingCommand")
    ELSE IF b.description = <<>> THEN Err("MissingDescription")
    ELSE Ok([id |-> b.id, command |-> b.command,
             description |-> b.description, aliases |-> b.aliases])

\* The texts given for the id, the command and the description: empty,
\* blank, or a name between spaces.
BuilderTexts == {<<>>, <<Space>>, <<Space, "a", Space>>}

\* The aliases added, in the order of the calls.
Added == UNION {[1..n -> {<<"b">>, <<"c">>}] : n \in 0..MaxAdds}

BuilderInit ==
    /\ ClientUnused
    /\ DispatcherUnused
    /\ call \in [fn : {"build"}, id : BuilderTexts, command : BuilderTexts,
                 description : BuilderTexts, added : Added]
    /\ ret = [done |-> FALSE]

\* Command::builder(..).alias(..)...build().
Build ==
    /\ call.fn = "build"
    /\ ~ret.done
    /\ ret' = [done |-> TRUE,
               built |-> build(aliased(builder(call.id, call.command,
                                               call.description),
                                       call.added))]
    /\ UNCHANGED <<clientVars, dispatchVars, call>>

BuilderNext == Build

BuilderSpec == BuilderInit /\ [][BuilderNext]_vars

(***************************************************************************)
(* bind.rs and dispatcher.rs: the listen-style handlers of one Bind under  *)
(* several calls of Dispatcher::dispatch, each on a task of its own.  The   *)
(* state of the Bind, `this: Arc<tokio::sync::Mutex<T>>`, is kept in ret:   *)
(* the task of every invocation, the invocation that holds the guard, the  *)
(* invocations queued on the mutex in their order of arrival, those that   *)
(* had to queue, and whether a panic has dropped the guard.                *)
(***************************************************************************)
\* The most calls of Dispatcher::dispatch in flight.
MaxDispatched == 2

\* The listen-style handlers of the Bind.
ListenHandlers == {1, 2}

\* An invocation is <<d, i>>: listen-style handler i for the message of
\* dispatch d.
Invocations == (1..MaxDispatched) \X ListenHandlers

LockInit ==
    /\ ClientUnused
    /\ DispatcherUnused
    /\ call = [fn |-> "listen"]
    /\ ret = [task |-> [v \in Invocations |-> "none"], holder |-> <<>>,
              waiters |-> <<>>, waited |-> {}, unwound |-> FALSE]

\* Dispatcher::dispatch of message d: tokio::spawn of dispatch_async, whose
\* JoinSet and that of the callable spawn one task for every handler.
Spawned(d) ==
    /\ call.fn = "listen"
    /\ \A i \in ListenHandlers : ret.task[<<d, i>>] = "none"
    /\ ret' = [ret EXCEPT !.task =
                [v \in Invocations |->
                    IF v[1] = d THEN "spawned" ELSE ret.task[v]]]
    /\ UNCHANGED <<clientVars, dispatchVars, call>>

\* LockAwait with the guard handed out whoever holds it.
LockAwaitBarging(v) ==
    /\ call.fn = "listen"
    /\ ret.task[v] = "spawned"
    /\ ret' = [ret EXCEPT !.task[v] = "holding", !.holder = v]
    /\ UNCHANGED <<clientVars, dispatchVars, call>>

\* `this.lock().await` of the wrapper of Bind::listen, first poll: the guard
\* when the mutex is free, a place at the back of its queue otherwise.
LockAwait(v) ==
    /\ call.fn = "listen"
    /\ ret.task[v] = "spawned"
    /\ IF ret.holder = <<>>
       THEN ret' = [ret EXCEPT !.task[v] = "holding", !.holder = v]
       ELSE ret' = [ret EXCEPT !.task[v] = "waiting",
                               !.waiters = Append(@, v),
                               !.waited = @ \cup {v}]
    /\ UNCHANGED <<clientVars, dispatchVars, call>>

\* The handler of the invocation that holds the guard ends; the guard is
\* dropped at the end of the async block, or by the unwinding of a panic,
\* and the mutex passes to the invocation at the front of its queue.
GuardDrop(v) ==
    /\ call.fn = "listen"
    /\ ret.task[v] = "holding"
    /\ \E outcome \in Outcomes :
        IF ret.waiters = <<>>
        THEN ret' = [ret EXCEPT !.task[v] = "ended", !.holder = <<>>,
                                !.unwound = @ \/ outcome = "panic"]
        ELSE ret' = [ret EXCEPT
                        !.task = [@ EXCEPT ![v] = "ended",
                                    ![Head(ret.waiters)] = "holding"],
                        !.holder = Head(ret.waiters),
                        !.waiters = Tail(@),
                        !.unwound = @ \/ outcome = "panic"]
    /\ UNCHANGED <<clientVars, dispatchVars, call>>

LockNext ==
    \/ \E d \in 1..MaxDispatched : Spawned(d)
    \/ \E v \in Invocations : LockAwait(v)
    \/ \E v \in Invocations : GuardDrop(v)

\* The handlers that hold the guard end.
LockSpec ==
    LockInit /\ [][LockNext]_vars
        /\ WF_vars(\E v \in Invocations : GuardDrop(v))

(***************************************************************************)
(* client.rs: the future `left` of the loop of Client::run and the arms    *)
(* Left(Some(msg)) and Left(None), for one answer of read.next_line().      *)
(***************************************************************************)
\* A line of the server: the wire text of a message, or a text the codec
\* does not parse.
NoInbound == [kind |-> None, user |-> None, user_id |-> None]
Wire(m) == [line |-> "message", of |-> m]
Malformed == [line |-> "malformed", of |-> NoInbound]
NoLine == [line |-> None, of |-> NoInbound]
ServerLines == {Wire(m) : m \in Inbound} \cup {Malformed}

\* The answers of read.next_line().await: Ok(Some(line)), Ok(None) at the
\* end of the stream, Err(io error).
NextLines ==
    {[ok |-> TRUE, some |-> TRUE, line |-> l] : l \in ServerLines}
        \cup {[ok |-> TRUE, some |-> FALSE, line |-> NoLine],
              [ok |-> FALSE, some |-> FALSE, line |-> NoLine]}

\* twitch_message::parse(&data): Ok(message) or Err(parse error).
parse(data) ==
    IF data.line = "message" THEN [ok |-> TRUE, value |-> data.of]
    ELSE [ok |-> FALSE, value |-> NoInbound]

\* The future left: `read.next_line().await.ok().flatten()?`, then
\* `parse(&data).map(..).ok()`.
left(next) ==
    IF ~(next.ok /\ next.some) THEN [some |-> FALSE, value |-> NoInbound]
    ELSE IF parse(next.line).ok
         THEN [some |-> TRUE, value |-> parse(next.line).value]
         ELSE [some |-> FALSE, value |-> NoInbound]

\* One iteration of the loop whose event is that of left: the arm
\* Left(Some(msg)), or the arm Left(None), which returns CannotRead.
left_event(next, name, q, fail) ==
    IF left(next).some THEN left_some(left(next).value, name, q, fail)
    ELSE [events |-> <<>>, our_name |-> name, queue |-> q,
          outcome |-> "CannotRead"]

ReadInit ==
    /\ ClientUnused
    /\ DispatcherUnused
    /\ call \in [fn : {"left"}, next : NextLines, our_name : {None, "bot"},
                 queue : PendingQueues]
    /\ ret = [done |-> FALSE]

\* One iteration of the loop in which read.next_line() answers call.next.
LeftEvent ==
    /\ call.fn = "left"
    /\ ~ret.done
    /\ \E fail \in 0..Len(call.queue) :
        /\ fail # 0 => /\ left(call.next).some
                       /\ left(call.next).value.kind = "GlobalUserState"
        /\ ret' = [done |-> TRUE, fail |-> fail,
                   arm |-> left_event(call.next, call.our_name, call.queue,
                                      fail)]
    /\ UNCHANGED <<clientVars, dispatchVars, call>>

ReadNext == LeftEvent

ReadSpec == ReadInit /\ [][ReadNext]_vars

(***************************************************************************)
(* command_file.rs, help.rs and bind.rs: the definition store COMMAND_FILE  *)
(* under calls of CommandFile::load_from_str, one Bind::bind of Hi with     *)
(* use_command_file, and the wrapper of that binding resolving its command. *)
(* ret holds the position of the loader, the file it deserialized, the ids  *)
(* it took from the store, the last file stored, the position of bind,     *)
(* whether the binding was there when the load began, and the command the   *)
(* wrapper last resolved.                                                   *)
(***************************************************************************)
\* The most calls of load_from_str, and the most dispatches that resolve.
MaxLoads == 2
MaxResolves == 2

\* A later definition a file holds for the id of Hi: the broadcaster only.
HiNew ==
    [id |-> "hi", command |-> <<"a">>, aliases |-> <<>>,
     allowed |-> <<Access("Broadcaster", None)>>,
     arguments |-> [usage |-> "", args |-> <<>>]]

\* The command files: at most one definition for an id.
Files == {hi \cup bye : hi \in {{}, {HiLive}, {HiNew}}, bye \in {{}, {Bye}}}

\* The ids of a set of commands.
IdsOf(commands) == {c.id : c \in commands}

\* The place of an id in the order of the BTreeMap of the registry.
Rank(id) == CHOOSE i \in 1..Len(Registered) : Registered[i].id = id

\* HelpRegistry::remove.
remove(help, id) == SelectSeq(help, LAMBDA c : c.id # id)

\* HelpRegistry::register: BTreeMap::insert under the id of the command.
register(help, cmd) ==
    SelectSeq(help, LAMBDA c : Rank(c.id) < Rank(cmd.id))
        \o <<cmd>>
        \o SelectSeq(help, LAMBDA c : Rank(c.id) > Rank(cmd.id))

\* The registry without the ids of the set ids.
RECURSIVE remove_all(_, _)
remove_all(help, ids) ==
    IF ids = {} THEN help
    ELSE LET id == CHOOSE i \in ids : TRUE
         IN  remove_all(remove(help, id), ids \ {id})

\* The variables of the dispatcher the store does not touch.
storeRest ==
    <<help_cmd, callables, msg, dpc, bind_task, task, lock, helped, replied>>

StoreInit ==
    /\ ClientUnused
    /\ help_cmd = [some |-> FALSE, value |-> HelpCommand]
    /\ callables = Bound([Default EXCEPT !.use_command_file = TRUE])
    /\ command_file = NoCommandFile
    /\ registry = <<>>
    /\ msg = NoMessage
    /\ dpc = "idle"
    /\ bind_task = [b \in Binds |-> "none"]
    /\ task = [h \in HandlerIds |-> "none"]
    /\ lock = [b \in Binds |-> <<>>]
    /\ helped = FALSE
    /\ replied = {}
    /\ call = [fn |-> "store"]
    /\ ret = [load |-> "idle", this |-> {}, old |-> {}, todo |-> {},
              loads |-> 0, stored |-> {}, bind |-> "none",
              began_bound |-> FALSE, resolves |-> 0,
              resolved |-> [live |-> FALSE, cmd |-> Hi]]

\* load_from_str up to the end of `std::mem::take(&mut old.write().commands)`:
\* deser answers an error, or the file; the commands of an initialized store
\* are taken out of it.
LoadTake ==
    /\ call.fn = "store"
    /\ ret.load = "idle"
    /\ ret.loads < MaxLoads
    /\ \/ /\ ret' = [ret EXCEPT !.loads = @ + 1]
          /\ UNCHANGED command_file
       \/ \E this \in Files :
            IF command_file.initialized
            THEN /\ ret' = [ret EXCEPT !.loads = @ + 1, !.load = "taken",
                                       !.this = this,
                                       !.old = command_file.commands,
                                       !.began_bound = ret.bind = "bound"]
                 /\ command_file' = [command_file EXCEPT !.commands = {}]
            ELSE /\ ret' = [ret EXCEPT !.loads = @ + 1, !.load = "register",
                                       !.this = this, !.old = {},
                                       !.todo = this,
                                       !.began_bound = ret.bind = "bound"]
                 /\ UNCHANGED command_file
    /\ UNCHANGED <<clientVars, storeRest, registry, call>>

\* The loop over the ids taken, under one lock of the registry: the help of
\* every id the new file does not hold is removed.
LoadRemove ==
    /\ call.fn = "store"
    /\ ret.load = "taken"
    /\ registry' = remove_all(registry, IdsOf(ret.old) \ IdsOf(ret.this))
    /\ ret' = [ret EXCEPT !.load = "register", !.todo = ret.this]
    /\ UNCHANGED <<clientVars, storeRest, command_file, call>>

\* One round of the loop over this.commands: the command is registered.
LoadRegister ==
    /\ call.fn = "store"
    /\ ret.load = "register"
    /\ \E cmd \in ret.todo :
        /\ registry' = register(registry, cmd)
        /\ ret' = [ret EXCEPT !.todo = @ \ {cmd}]
    /\ UNCHANGED <<clientVars, storeRest, command_file, call>>

\* COMMAND_FILE.set(..), or `*file.write() = this` when it is set already.
LoadSet ==
    /\ call.fn = "store"
    /\ ret.load = "register"
    /\ ret.todo = {}
    /\ command_file' = [initialized |-> TRUE, commands |-> ret.this]
    /\ ret' = [ret EXCEPT !.load = "idle", !.stored = ret.this]
    /\ UNCHANGED <<clientVars, storeRest, registry, call>>

\* Bind::bind of Hi: help_registry().register(&cmd).
BindRegister ==
    /\ call.fn = "store"
    /\ ret.bind = "none"
    /\ registry' = register(registry, Handler(<<1, 1>>).cmd)
    /\ ret' = [ret EXCEPT !.bind = "add"]
    /\ UNCHANGED <<clientVars, storeRest, command_file, call>>

\* Bind::bind of Hi: `CommandFile::add(&cmd).expect(..)`, which panics on a
\* store that is not initialized and inserts the command under its id
\* otherwise; then the wrapper is pushed.
BindAdd ==
    /\ call.fn = "store"
    /\ ret.bind = "add"
    /\ IF ~command_file.initialized
       THEN /\ ret' = [ret EXCEPT !.bind = "panic"]
            /\ UNCHANGED command_file
       ELSE /\ ret' = [ret EXCEPT !.bind = "bound"]
            /\ command_file' =
                [command_file EXCEPT !.commands =
                    {c \in @ : c.id # Handler(<<1, 1>>).cmd.id}
                        \cup {Handler(<<1, 1>>).cmd}]
    /\ UNCHANGED <<clientVars, storeRest, registry, call>>

\* CommandFile::get_ref(id) answered Ok: the store is initialized and holds
\* the id.
get_ref_ok(id) ==
    command_file.initialized /\ id \in IdsOf(command_file.commands)

\* The wrapper of the binding, called for a message: whether get_ref
\* answered Ok, and the command the wrapper hands to check_cmd_access.
Resolve ==
    /\ call.fn = "store"
    /\ ret.bind = "bound"
    /\ ret.resolves < MaxResolves
    /\ ret' = [ret EXCEPT !.resolves = @ + 1,
                          !.resolved =
                            [live |-> get_ref_ok(Handler(<<1, 1>>).cmd.id),
                             cmd |-> Resolved(Handler(<<1, 1>>))]]
    /\ UNCHANGED <<clientVars, dispatchVars, call>>

StoreNext ==
    \/ LoadTake
    \/ LoadRemove
    \/ LoadRegister
    \/ LoadSet
    \/ BindRegister
    \/ BindAdd
    \/ Resolve

StoreSpec == StoreInit /\ [][StoreNext]_vars

(***************************************************************************)
(* Claims about the connection manager, checked under Spec.                *)
(***************************************************************************)
\* The kinds of the frames of Message, Reply, Raw and Quit requests.
GatedFrames == {"PRIVMSG", "REPLY", "RAW", "QUIT"}

\* The frames on the socket after the registration frame.
Written == SubSeq(socket, 2, Len(socket))

\* The channels of the JOIN frames among the first n frames after the
\* registration frame.
JoinedFirst(n) ==
    {Written[i].channel : i \in {k \in 1..n : Written[k].kind = "JOIN"}}

\* The keepalive PINGs written since the loop last saw traffic.
KeepalivePings ==
    Cardinality({i \in (mark + 1)..Len(socket) : socket[i].kind = "PING"})

\* C1: while the Identity of the connection is not resolved, no Message,
\* Reply, Raw or Quit frame has been written to its socket.
C1_NoWriteBeforeIdentity ==
    identity = None =>
        \A i \in 1..Len(socket) : socket[i].kind \notin GatedFrames

\* C2: when a run has written its JOINs and has not yet taken any input,
\* the channels it re-issued are exactly the channels whose most recent
\* received request is a Join.
C2_RejoinsWantedChannels ==
    (pc = "loop" /\ ~consumed) =>
        JoinedFirst(Len(Written)) = wanted

\* C3: in the loop, and whenever the run has taken any input, the frames
\* after the registration begin with one JOIN for every channel of the
\* JoinedChannelSet; and a run that ended before it wrote them all returned
\* CannotWrite and took no input.
C3_RejoinOnEntry ==
    /\ (pc = "loop" \/ consumed) =>
        /\ Len(Written) >= Cardinality(channels)
        /\ \A i \in 1..Cardinality(channels) : Written[i].kind = "JOIN"
        /\ JoinedFirst(Cardinality(channels)) = channels
    /\ (pc = "on_disconnected" /\ socket # <<>>
            /\ Len(Written) < Cardinality(channels)) =>
        /\ result = "CannotWrite"
        /\ ~consumed
        /\ \A i \in 1..Len(Written) : Written[i].kind = "JOIN"

C3_Witness ==
    /\ pc = "loop"
    /\ consumed
    /\ Cardinality(channels) = 2
    /\ Len(Written) > 2

\* C4 as stated: with two channels in the JoinedChannelSet, the run re-issues
\* their JOINs in the order in which they were joined.
C4_RejoinInJoinOrder ==
    (pc = "loop" /\ Len(join_order) = 2) =>
        /\ Written[1] = Frame("JOIN", join_order[1])
        /\ Written[2] = Frame("JOIN", join_order[2])

\* C4 as amended: with two channels in the JoinedChannelSet, the first two
\* frames after the registration are the JOINs of the two channels, in
\* either order, so that every frame flushed from the PendingQueue comes
\* after both.
C4_RejoinBothFirst ==
    (pc = "loop" /\ Cardinality(channels) = 2) =>
        /\ Len(Written) >= 2
        /\ {Written[1], Written[2]} = {Frame("JOIN", c) : c \in channels}
        /\ \A i \in 1..Len(Written) :
                Written[i].kind \in GatedFrames => i > 2

C4_Witness ==
    /\ pc = "loop"
    /\ Cardinality(channels) = 2
    /\ identity # None
    /\ \E i \in 1..Len(Written) : Written[i].kind = "PRIVMSG"
    /\ Written[1] = Frame("JOIN", join_order[2])

\* C5: while the loop waits, the ticks since it last saw traffic are the
\* ping interval times the keepalive PINGs written since, plus the ticks
\* elapsed of the pending timeout, which never exceed the interval: one PING
\* for each elapsed interval, and traffic restarts the interval.
C5_OnePingPerInterval ==
    pc = "loop" =>
        /\ idle <= PingDelay
        /\ quiet = PingDelay * KeepalivePings + idle

C5_Witness ==
    /\ pc = "loop"
    /\ KeepalivePings = 2
    /\ consumed

\* C6: on_disconnected is consulted once for every failed connect() and
\* errored run(), and not for a run that returned Ok; the supervisor has
\* stopped exactly when run returned Ok or the policy answered Never; it
\* sleeps the default delay for Always and the given delay for After; and
\* every attempt began with one on_connecting.
C6_Supervisor ==
    /\ consulted = failures - (IF pc = "on_disconnected" THEN 1 ELSE 0)
    /\ pc = "stopped" <=> (result = "Ok" \/ policy = "Never")
    /\ result = "Ok" => (policy = None /\ consulted = failures)
    /\ pc = "sleep" =>
        \/ policy = "Always" /\ delay = DEFAULT_DELAY
        \/ policy = "After" /\ delay \in Delays
    /\ pc \in {"connect", "drain", "run", "loop"} => attempts = failures + 1
    /\ pc \in {"on_connecting", "on_disconnected", "sleep"} =>
        attempts = failures

C6_Witness ==
    /\ pc = "stopped"
    /\ result = "Ok"
    /\ attempts = 2
    /\ consulted = 1

\* C7: after H::init failed, `connect` has returned that error, and none of
\* on_connecting, Client::connect, drain_pending_writes, run and
\* on_disconnected was or will be invoked.
C7_InitFailureIsFinal ==
    (pc = "failed" \/ result = "CannotInit") =>
        /\ pc = "failed"
        /\ result = "CannotInit"
        /\ attempts = 0
        /\ consulted = 0
        /\ failures = 0
        /\ socket = <<>>
        /\ ~handed
        /\ ~ENABLED Next

C7_Witness == pc = "failed"

(***************************************************************************)
(* Claims about the dispatcher, checked under DispatchSpec.                *)
(***************************************************************************)
\* The handler the user supplied was called.
Called(h) == task[h] \in {"invoked", "replied", "ok", "error", "panicked"}

\* The handler the user supplied was called and its task has ended.
Completed(h) == task[h] \in {"ok", "error", "panicked"}

\* The handler is one the message is for: a listen-style handler, or a
\* bind-style handler whose command the message passes.
Due(h) ==
    \/ Handler(h).style = "listen"
    \/ check_cmd_access(Resolved(Handler(h)), msg, Handler(h).opts).some

\* The requests in the Write Queue that h sent with the text t.
Queued(h, t) ==
    {i \in 1..Len(recv) : recv[i].by = h /\ recv[i].data.text = t}

\* C8: once a handler has returned an error or panicked, it holds the state
\* of no binding locked, dispatch_async returns only after the task of every
\* other handler has ended, every other handler the message is for has been
\* called by then, and the reply of every handler that sent one is in the
\* Write Queue.
C8_FanOutIsolation ==
    /\ \A g \in replied : Queued(g, "handler") # {}
    /\ \A h \in HandlerIds : task[h] \in {"error", "panicked"} =>
        \A g \in HandlerIds \ {h} :
            /\ lock[g[1]] # h
            /\ (dpc = "done" /\ Due(g)) => Completed(g)
            /\ dpc = "done" => Finished(task[g])

C8_Witness ==
    /\ dpc = "done"
    /\ task[<<1, 2>>] = "panicked"
    /\ task[<<1, 1>>] = "ok"
    /\ task[<<2, 1>>] = "error"
    /\ replied = {<<1, 1>>, <<2, 1>>}

\* The text of the message begins with the name of the configured help
\* command.
HelpMatches ==
    /\ help_cmd.some
    /\ \E n \in 0..Len(msg.data) :
        SubSeq(msg.data, 1, n) = help_cmd.value.command

\* C9: when the help command is configured and matches the message, the
\* help responder has sent the one reply in the Write Queue and no task of a
\* binding or of a handler exists; when it does not, the help responder has
\* not run, and by the return of dispatch_async the task of every handler
\* has run and every listen-style handler was called.
C9_HelpShortCircuit ==
    dpc # "idle" =>
        IF HelpMatches
        THEN /\ helped
             /\ dpc = "done"
             /\ \A b \in Binds : bind_task[b] = "none"
             /\ \A h \in HandlerIds : task[h] = "none"
             /\ Len(recv) = 1
             /\ recv[1].by = <<>>
        ELSE /\ ~helped
             /\ \A i \in 1..Len(recv) : recv[i].by # <<>>
             /\ dpc = "done" =>
                    \A h \in HandlerIds :
                        /\ Finished(task[h])
                        /\ Handler(h).style = "listen" => Completed(h)

C9_Witness ==
    /\ helped
    /\ dpc = "done"
    /\ msg.data = <<"h", " ", "a">>
    /\ recv[1].data.text = "describe"

\* Argument extraction of cmd yields a Match for the message.
Matches(cmd, m) ==
    /\ tail(cmd, m.data).some
    /\ extract(cmd.arguments, tail(cmd, m.data).value).kind = "Match"

\* C10: under every BindOptions, a bind-style handler that was called had a
\* sender allowed by the access list of its command and a Match of its
\* arguments, and one whose wrapper returned without calling it had not.
C10_InvokedIffAllowedAndMatch ==
    \A h \in HandlerIds : Handler(h).style = "bind" =>
        LET cmd == Resolved(Handler(h))
            passes == is_allowed(msg, cmd.allowed) /\ Matches(cmd, msg)
        IN  /\ Called(h) => passes
            /\ task[h] = "skipped" => ~passes

C10_Witness ==
    /\ task[<<1, 1>>] = "skipped"
    /\ task[<<2, 1>>] = "ok"
    /\ Matches(Resolved(Handler(<<1, 1>>)), msg)
    /\ ~is_allowed(msg, Resolved(Handler(<<1, 1>>)).allowed)
    /\ Handler(<<1, 1>>).opts.report_access_error
    /\ Handler(<<1, 1>>).opts.use_command_file

\* The listen-style handlers of the dispatcher.
Listeners == {h \in HandlerIds : Handler(h).style = "listen"}

\* C11 as stated: no message is dispatched without every listen-style
\* handler being run for it.
C11_ListenRunsForEveryMessage ==
    dpc = "done" => \A h \in Listeners : Completed(h)

\* C11 as amended: once dispatch_async has spawned its tasks, that is for
\* every message the help command did not take, every listen-style handler
\* is eventually called and ends, whoever the sender is and whatever the
\* text is.
C11_ListenRunsUnlessHelp ==
    (dpc = "joining") ~> (\A h \in Listeners : Completed(h))

C11_Witness ==
    /\ dpc = "done"
    /\ \A h \in Listeners : Completed(h)
    /\ ~is_allowed(msg, Hi.allowed)
    /\ task[<<1, 1>>] = "skipped"

(***************************************************************************)
(* Claims about the access policy, checked under AccessSpec.               *)
(***************************************************************************)
\* The predicate matches the sender: its flag, its name without regard to
\* case, its exact id, or All.
Satisfies(pm, predicate) ==
    \/ predicate.kind = "Moderator" /\ "moderator" \in pm.badges
    \/ predicate.kind = "Broadcaster" /\ "broadcaster" \in pm.badges
    \/ predicate.kind = "Subscriber" /\ "subscriber" \in pm.badges
    \/ predicate.kind = "Vip" /\ "vip" \in pm.badges
    \/ predicate.kind = "User"
            /\ to_ascii_lowercase(predicate.of) = to_ascii_lowercase(pm.sender)
    \/ predicate.kind = "UserId" /\ predicate.of = pm.user_id
    \/ predicate.kind = "All"

\* The access lists with the entries of list in another order.
Reordered(list) ==
    {[i \in 1..Len(list) |-> list[o[i]]] : o \in Orders(1..Len(list))}

\* C12: is_allowed answers true exactly when the list is empty, or the
\* sender has no user id, or some predicate of the list matches the sender;
\* and it answers the same for the list in every other order.
C12_AccessIsDisjunction ==
    ret.done =>
        /\ ret.value =
            (\/ call.access = <<>>
             \/ call.pm.user_id = None
             \/ \E i \in 1..Len(call.access) :
                    Satisfies(call.pm, call.access[i]))
        /\ \A other \in Reordered(call.access) :
                is_allowed(call.pm, other) = ret.value

C12_Witness ==
    /\ ret.done
    /\ ret.value
    /\ call.pm.user_id = "2"
    /\ Len(call.access) = 2
    /\ ~Satisfies(call.pm, call.access[1])
    /\ call.access[2] = Access("Vip", None)

\* The access list consists only of UserId{id}.
OnlyUserId(list, id) ==
    /\ list # <<>>
    /\ \A i \in 1..Len(list) : list[i] = Access("UserId", id)

\* C13 as stated: a list of UserId{id} only allows the sender whose id is id
\* and denies every other sender.
C13_UserIdOnlyDeniesOthers ==
    ret.done =>
        \A id \in {"1", "2"} : OnlyUserId(call.access, id) =>
            ret.value = (call.pm.user_id = id)

\* C13 as amended: a list of UserId{id} only allows the sender whose id is
\* id and the sender without a user id, and denies every other sender,
\* whatever its name and badges; an empty list allows every sender.
C13_UserIdOnlyDeniesOtherIds ==
    ret.done =>
        /\ \A id \in {"1", "2"} : OnlyUserId(call.access, id) =>
            ret.value = (call.pm.user_id = id \/ call.pm.user_id = None)
        /\ call.access = <<>> => ret.value

C13_Witness ==
    /\ ret.done
    /\ ~ret.value
    /\ call.access = <<Access("UserId", "1")>>
    /\ call.pm.user_id = "2"
    /\ call.pm.badges = Badges

(***************************************************************************)
(* Claims about extraction, checked under ExtractSpec.                     *)
(***************************************************************************)
\* C14: the message of an alias followed by a tail and the message of the
\* command name followed by the same tail have the same result of
\* extraction, whatever the command name and the aliases are.
C14_AliasEquivalence ==
    (ret.done /\ call.fn = "extract_args") => ret.by_alias = ret.by_name

\* The positions at which the words of the text t begin, and the position
\* at which the word that begins at p ends.
WordStarts(t) ==
    {p \in 1..Len(t) : t[p] # Space /\ (p = 1 \/ t[p - 1] = Space)}

WordEnd(t, p) ==
    CHOOSE q \in p..Len(t) :
        /\ \A r \in p..q : t[r] # Space
        /\ q = Len(t) \/ t[q + 1] = Space

\* The position at which word i of t begins.
WordStart(t, i) ==
    CHOOSE p \in WordStarts(t) :
        Cardinality({q \in WordStarts(t) : q < p}) = i - 1

\* The entries the walk is to produce: slot i has one when t has a word i
\* and no slot before it is Variadic; it is the rest of t from word i on
\* for a Variadic slot and for the slot of the last word, and word i alone
\* otherwise.
WalkEntries(args, t) ==
    {<<args[i].key,
       IF args[i].kind = "Variadic" \/ i = Cardinality(WordStarts(t))
       THEN SubSeq(t, WordStart(t, i), Len(t))
       ELSE SubSeq(t, WordStart(t, i), WordEnd(t, WordStart(t, i)))>> :
        i \in {k \in 1..Len(args) :
                /\ k <= Cardinality(WordStarts(t))
                /\ \A j \in 1..(k - 1) : args[j].kind # "Variadic"}}

\* C20: for a grammar with slots and a tail that is not empty, extract
\* answers Match with the entries of the walk: each Required or Optional
\* slot followed by more tail has the text up to the next space, the slot
\* of the last word or a Variadic slot has all of the remaining tail, and no
\* later slot has an entry; "<a> <b?> <c..>" and "x y z w" give
\* {a: "x", b: "y", c: "z w"}.
C20_ExtractionWalk ==
    (ret.done /\ call.fn = "extract" /\ call.arguments.args # <<>>) =>
        /\ ret.found.kind = "Match"
        /\ ret.found.entries = WalkEntries(call.arguments.args, call.t)
        /\ (call.arguments.usage = "<a> <b?> <c..>"
                /\ call.t = <<"x", " ", "y", " ", "z", " ", "w">>) =>
            ret.found.entries =
                {<<"a", <<"x">>>>, <<"b", <<"y">>>>,
                 <<"c", <<"z", " ", "w">>>>}

C20_Witness ==
    /\ ret.done
    /\ call.fn = "extract"
    /\ call.arguments.usage = "<a> <b?> <c..>"
    /\ call.t = <<"x", " ", "y", " ", "z", " ", "w">>
    /\ ret.found.entries =
        {<<"a", <<"x">>>>, <<"b", <<"y">>>>, <<"c", <<"z", " ", "w">>>>}

\* The keys of the Required slots of the grammar.
RequiredKeys(arguments) ==
    {arguments.args[i].key :
        i \in {j \in 1..Len(arguments.args) :
                    arguments.args[j].kind = "Required"}}

\* C36: when extraction answers with a map for a handler, the map has a
\* value for every Required slot of the grammar; a tail with fewer words
\* than the grammar has Required slots is answered with the usage error.
C36_RequiredAlwaysBound ==
    (ret.done /\ call.fn = "extract_args") =>
        LET required == RequiredKeys(call.cmd.arguments)
        IN  /\ ret.by_name.kind = "OkSome" =>
                    \A k \in required :
                        \E e \in ret.by_name.entries : e[1] = k
            /\ Cardinality(WordStarts(call.t)) < Cardinality(required) =>
                    ret.by_name.kind = "Err"

\* The commands of the registry r that the sender of m may use.
Usable(r, m) == SelectSeq(r, LAMBDA c : is_allowed(m, c.allowed))

\* C15: two registries that differ only in commands the requester may not
\* use give the requester the same reply to the same help request; a
\* command that is there but denied is answered like one that is not
\* there.
C15_HelpNonDisclosure ==
    (/\ call.fn = "try_send_help"
     /\ ret.done
     /\ Usable(call.registries[1], call.m)
            = Usable(call.registries[2], call.m)) =>
        ret.replies[1] = ret.replies[2]

(***************************************************************************)
(* Claims about the compilation of usage strings, checked under            *)
(* GrammarSpec.                                                            *)
(***************************************************************************)
\* The slots written in the usage string s, in order: the tokens of the
\* forms <name>, <name?> and <name..>.
WrittenSlots(s) ==
    LET slots == SelectSeq(split_whitespace(s), LAMBDA t : Slot(t).some)
    IN  [i \in 1..Len(slots) |->
            ArgType(Slot(slots[i]).key, Slot(slots[i]).kind)]

\* The places of the slots of a kind.
Places(slots, kind) == {i \in 1..Len(slots) : slots[i].kind = kind}

\* The keys of the slots are pairwise distinct and hold accepted bytes only.
KeysWellFormed(slots) ==
    /\ \A i, j \in 1..Len(slots) : i # j => slots[i].key # slots[j].key
    /\ \A i \in 1..Len(slots) : all_alpha(slots[i].key)

\* An Optional slot directly followed by a Required one stands before
\* place n.
OptionalFirst(slots, n) ==
    \E i \in 1..(n - 1) :
        /\ slots[i].kind = "Optional"
        /\ i < Len(slots)
        /\ slots[i + 1].kind = "Required"

Compiled == call.fn = "from_str" /\ ret.done

\* C16 as stated: a usage string compiles only with at most one Variadic
\* slot, in the last place; two or more Variadic slots always give
\* MultipleVariadic with their keys, and a single Variadic slot followed by
\* another slot always gives VariadicNotInTail with its key.
C16_VariadicErrorsAlways ==
    Compiled =>
        LET slots == WrittenSlots(call.input)
            variadic == Places(slots, "Variadic")
        IN  /\ ret.parsed.ok => variadic \subseteq {Len(slots)}
            /\ Cardinality(variadic) >= 2 =>
                ret.parsed = Err(MultipleVariadic(VariadicKeys(slots)))
            /\ \A i \in variadic :
                (variadic = {i} /\ i < Len(slots)) =>
                    ret.parsed = Err(VariadicNotInTail(slots[i].key))

\* C16: a usage string compiles only with at most one Variadic slot, in
\* the last place; when the keys are distinct and well formed, two or more
\* Variadic slots give MultipleVariadic with their keys in order, and a
\* single Variadic slot followed by another slot gives VariadicNotInTail
\* with its key, unless an Optional slot directly followed by a Required
\* one stands before it, which gives OptionalBeforeRequired.
C16_VariadicErrors ==
    Compiled =>
        LET slots == WrittenSlots(call.input)
            variadic == Places(slots, "Variadic")
        IN  /\ ret.parsed.ok => variadic \subseteq {Len(slots)}
            /\ (KeysWellFormed(slots) /\ Cardinality(variadic) >= 2) =>
                ret.parsed = Err(MultipleVariadic(VariadicKeys(slots)))
            /\ \A i \in variadic :
                (KeysWellFormed(slots) /\ variadic = {i} /\ i < Len(slots))
                    => IF OptionalFirst(slots, i)
                       THEN ~ret.parsed.ok
                            /\ ret.parsed.error.kind
                                = "OptionalBeforeRequired"
                       ELSE ret.parsed
                            = Err(VariadicNotInTail(slots[i].key))

C16_Witness ==
    /\ Compiled
    /\ Len(WrittenSlots(call.input)) = 3
    /\ ret.parsed = Err(MultipleVariadic(<<"b", "c">>))

\* C17: a usage string in which an Optional slot stands anywhere before a
\* Required slot, next to it or not, does not compile.
C17_OptionalBeforeRequired ==
    Compiled =>
        LET slots == WrittenSlots(call.input)
        IN  (\E i \in Places(slots, "Optional"),
                j \in Places(slots, "Required") : i < j) => ~ret.parsed.ok

C17_Witness ==
    /\ Compiled
    /\ LET slots == WrittenSlots(call.input)
       IN  /\ Len(slots) = 3
           /\ KeysWellFormed(slots)
           /\ slots[1].kind = "Optional"
           /\ slots[2].kind # "Required"
           /\ slots[3].kind = "Required"
    /\ ~ret.parsed.ok

\* C18: a grammar that compiles has pairwise distinct keys, each a string
\* of one or more of the bytes A-Z, a-z, 0-9, _ and -; a usage string with
\* a repeated key, a key without a byte or a key with another byte does
\* not compile.
C18_KeysDistinctNonEmpty ==
    Compiled =>
        /\ ret.parsed.ok =>
            /\ KeysWellFormed(ret.parsed.value.args)
            /\ \A i \in 1..Len(ret.parsed.value.args) :
                ret.parsed.value.args[i].key # <<>>
        /\ LET slots == WrittenSlots(call.input)
           IN  (\/ ~KeysWellFormed(slots)
                \/ \E i \in 1..Len(slots) : slots[i].key = <<>>)
                    => ~ret.parsed.ok

\* C19 as stated: the usage of the compiled grammar is the usage string
\* that was compiled, and compiling it again gives an equal grammar.
C19_RoundTripExact ==
    (Compiled /\ ret.again) =>
        /\ ret.rendered = call.input
        /\ ret.reparsed = ret.parsed

\* C19: the usage of the compiled grammar is the usage string that was
\* compiled without the spaces around it, and compiling it again gives an
\* equal grammar.
C19_RoundTrip ==
    (Compiled /\ ret.again) =>
        /\ ret.rendered = Trim(call.input)
        /\ ret.reparsed = ret.parsed

C19_Witness ==
    /\ Compiled
    /\ ret.again
    /\ call.input # Trim(call.input)
    /\ ret.rendered = Trim(call.input)
    /\ Len(ret.parsed.value.args) = 2
    /\ Len(split_whitespace(call.input)) = 3
    /\ ret.reparsed = ret.parsed

(***************************************************************************)
(* Claims about handle_write, checked under HandleWriteSpec.               *)
(***************************************************************************)
\* The places of the newlines of the body b, with 0 before and Len(b) + 1
\* after them.
Breaks(b) == {0, Len(b) + 1} \cup {p \in 1..Len(b) : b[p] = Newline}

\* Segment i of b: the text between break i and break i + 1.
SegmentOf(b, i) ==
    LET from == CHOOSE p \in Breaks(b) :
                    Cardinality({q \in Breaks(b) : q < p}) = i - 1
        to == CHOOSE p \in Breaks(b) :
                    Cardinality({q \in Breaks(b) : q < p}) = i
    IN  SubSeq(b, from + 1, to - 1)

\* s without the whitespace around it: from its first to its last
\* character that is no whitespace.
Stripped(s) ==
    LET solid == {p \in 1..Len(s) : s[p] \notin WhiteSpace}
    IN  IF solid = {} THEN <<>>
        ELSE SubSeq(s, CHOOSE p \in solid : \A q \in solid : p <= q,
                       CHOOSE p \in solid : \A q \in solid : q <= p)

\* C21: handle_write of a Privmsg or Reply request with body b writes, in
\* order, one frame for each newline-separated segment of b, carrying the
\* segment without the whitespace around it, up to the write that fails
\* if one does; no frame written holds a newline.
C21_OneFramePerSegment ==
    (call.fn = "handle_write" /\ ret.done) =>
        LET b == call.req.data
            frames == ret.written.frames
            n == Cardinality(Breaks(b)) - 1
        IN  /\ Len(frames) = IF ret.fail = 0 THEN n ELSE ret.fail - 1
            /\ (ret.written.result = "Ok") <=> (ret.fail = 0)
            /\ \A i \in 1..Len(frames) :
                /\ frames[i].data = Stripped(SegmentOf(b, i))
                /\ frames[i].channel = call.req.target
                /\ frames[i].kind = IF call.req.kind = "Privmsg"
                                    THEN "PRIVMSG" ELSE "REPLY"
                /\ \A p \in 1..Len(frames[i].data) :
                    frames[i].data[p] # Newline

C21_Witness ==
    /\ call.fn = "handle_write"
    /\ ret.done
    /\ call.req.data = <<Space, "x", Newline, "x", Space>>
    /\ ret.written.result = "Ok"
    /\ ret.written.frames =
        <<Line("PRIVMSG", "a", <<"x">>), Line("PRIVMSG", "a", <<"x">>)>>

(***************************************************************************)
(* Claims about Quit, the flush and the forwarding, checked under Spec.    *)
(***************************************************************************)
\* A QUIT frame is on the socket of the connection.
QuitWritten(sock) == \E i \in 1..Len(sock) : sock[i].kind = "QUIT"

\* The frames of the requests of q, in order.
Frames(q) == [i \in 1..Len(q) |-> Encode(q[i])]

\* The entries of the PendingQueue q that are ahead of a Quit: those before
\* the first Quit of q when the Quit is flushed from q, all of q when the
\* Quit is taken from the Write Queue.
Ahead(q, flushed) ==
    IF flushed THEN SubSeq(q, 1, Index(q, Quit) - 1) ELSE q

\* C22: the step that writes a Quit, taken from the Write Queue or flushed
\* from the PendingQueue, makes run return Ok with the QUIT as the last
\* frame of the connection, after the frames of every PendingQueue entry
\* that was queued ahead of it.
C22_QuitEndsRun ==
    [][(QuitWritten(socket') /\ ~QuitWritten(socket)) =>
        /\ pc' = "stopped"
        /\ result' = "Ok"
        /\ socket' = socket \o Frames(Ahead(queue, recv' = recv))
                        \o <<Encode(Quit)>>]_vars

\* C25: when the collaborators hold no Writer any more while the loop of
\* run is running, the Write Queue is closed, so that the loop receives
\* None once the queue is empty and returns Ok.
C25_ClosureObserved ==
    (pc = "loop" /\ ~handed) => Producers = 0

\* C27: no Join and no Part is in the PendingQueue, and the
\* JoinedChannelSet holds the channels whose last request received, by
\* drain_pending_writes or by the loop, is a Join.
C27_MembershipNeverQueued ==
    /\ \A i \in 1..Len(queue) : queue[i].kind \notin {"Join", "Part"}
    /\ pc \in {"run", "loop"} => channels = wanted

\* The channels of set after the Join and Part requests of rs, in order:
\* a channel is there when the last request for it is a Join, or when
\* there is none and it was there before.
Membership(set, rs) ==
    {c \in Channels :
        LET about == {i \in 1..Len(rs) :
                        rs[i].kind \in {"Join", "Part"}
                            /\ rs[i].channel = c}
        IN  IF about = {} THEN c \in set
            ELSE rs[CHOOSE i \in about : \A j \in about : j <= i].kind
                    = "Join"}

\* C28: drain_pending_writes can always run when connect reaches it, and
\* for the requests s then in the Write Queue the step leaves the Write
\* Queue empty, the JoinedChannelSet as the Join and Part requests of s
\* in order make it, the PendingQueue as it was followed by the other
\* requests of s in their order, and the socket as it was.
C28_DrainPendingWrites ==
    /\ [](pc = "drain" => ENABLED DrainPendingWrites)
    /\ [][(pc = "drain" /\ pc' # "drain") =>
            /\ pc' = "run"
            /\ recv' = <<>>
            /\ channels' = Membership(channels, recv)
            /\ queue' = queue \o SelectSeq(recv,
                            LAMBDA r : r.kind \notin {"Join", "Part"})
            /\ socket' = socket]_vars

C28_Witness ==
    /\ pc = "run"
    /\ attempts = 2
    /\ recv = <<>>
    /\ sends = 3
    /\ channels = {"a"}
    /\ queue = <<Privmsg, Privmsg>>

(***************************************************************************)
(* Claims about one inbound message, checked under LineSpec.               *)
(***************************************************************************)
\* The places of the call name in the events.
Called_at(events, name) ==
    {i \in 1..Len(events) : events[i] = Calls(name)}

\* on_twitch_message is called once for the message, and on_privmsg once,
\* before it, exactly when the message is a chat message.
Forwarded(events, m) ==
    /\ Cardinality(Called_at(events, "on_twitch_message")) = 1
    /\ Cardinality(Called_at(events, "on_privmsg"))
            = IF m.kind = "Privmsg" THEN 1 ELSE 0
    /\ \A i \in Called_at(events, "on_privmsg"),
          j \in Called_at(events, "on_twitch_message") : i < j

\* C23 as stated: every parsed message is forwarded, the global identity
\* included.
C23_ForwardedAlways ==
    (call.fn = "left_some" /\ ret.done) =>
        Forwarded(ret.arm.events, call.msg)

\* C23: every parsed message is forwarded unless run ends while the global
\* identity is processed (a failed write or a Quit of the flush, or a
\* missing name or user id); then neither notification is called for it.
C23_Forwarded ==
    (call.fn = "left_some" /\ ret.done) =>
        IF ret.arm.outcome = "continue"
        THEN Forwarded(ret.arm.events, call.msg)
        ELSE /\ call.msg.kind = "GlobalUserState"
             /\ Called_at(ret.arm.events, "on_twitch_message") = {}
             /\ Called_at(ret.arm.events, "on_privmsg") = {}

C23_Witness ==
    /\ call.fn = "left_some"
    /\ ret.done
    /\ call.msg.kind = "GlobalUserState"
    /\ call.queue = <<Privmsg>>
    /\ ret.arm.outcome = "continue"
    /\ ret.arm.events =
        <<Calls("on_connected"), Writes(Encode(Privmsg)),
          Calls("on_twitch_message")>>

\* The events of the arm that are writes, in order.
WritesOf(events) == SelectSeq(events, LAMBDA e : e.call = "write")

AddedTwice(added) ==
    \E i, j \in 1..Len(added) : i # j /\ added[i] = added[j]

\* The aliases added, each at the place of its first addition.
FirstAdditions(added) ==
    LET firsts == {i \in 1..Len(added) :
                     \A j \in 1..(i - 1) : added[j] # added[i]}
    IN  [k \in 1..Cardinality(firsts) |->
            added[CHOOSE i \in firsts :
                    Cardinality({j \in firsts : j < i}) = k - 1]]

BindStyle == {h \in HandlerIds : Handler(h).style = "bind"}

\* The wrapper of h has decided about the message.
Decided(h) == task[h] \notin {"none", "spawned"}

\* The message names the command h resolved, by its name or by an alias,
\* and leaves a required argument out.
MissingRequired(h) ==
    LET cmd == Resolved(Handler(h))
        t == tail(cmd, msg.data)
    IN  t.some /\ extract(cmd.arguments, t.value).kind = "Required"

\* The usage replies of h in the Write Queue.
UsageReplies(h) ==
    {i \in 1..Len(recv) : recv[i].by = h /\ recv[i].data.text = "usage"}

\* The text "usage: <command> <usage>" of the command h resolved.
Generated(h) ==
    <<"usage: ">> \o Resolved(Handler(h)).command
        \o <<" ", Resolved(Handler(h)).arguments.usage>>

Holding == {v \in Invocations : ret.task[v] = "holding"}

\* C30: at no time do two listen-style invocations of one Bind, for the
\* same message or for messages dispatched concurrently, hold the lock of
\* the shared state together; and every invocation that waits for the lock
\* acquires it, given that the handler of each holder ends.
C30_ListenMutualExclusion ==
    /\ [](call.fn = "listen" => Cardinality(Holding) <= 1)
    /\ \A v \in Invocations :
        (call.fn = "listen" /\ ret.task[v] = "waiting")
            ~> (ret.task[v] = "holding")

\* An invocation for the second message had to queue behind one for the
\* first, whose handler panicked, and now holds the guard while another
\* waits.
C30_Witness ==
    /\ call.fn = "listen"
    /\ ret.task[<<1, 1>>] = "ended"
    /\ ret.unwound
    /\ <<2, 1>> \in ret.waited
    /\ ret.task[<<2, 1>>] = "holding"
    /\ ret.task[<<1, 2>>] = "waiting"

\* The first word of the text: the text up to its first space.
FirstToken(data) ==
    IF Index(data, Space) = 0 THEN data
    ELSE SubSeq(data, 1, Index(data, Space) - 1)

\* The first word of the text is the name or an alias of the command.
Names_it(cmd, data) ==
    \E i \in 1..Len(possible_commands(cmd)) :
        possible_commands(cmd)[i] = FirstToken(data)

\* C37: Command::tail answers only for a message whose first word is the
\* name or an alias of the command: the help responder answers, and a
\* bind-style handler is called, only for such a message, never for one
\* whose first word merely begins with the name.
C37_TokenBoundary ==
    dpc # "idle" =>
        /\ helped => Names_it(help_cmd.value, msg.data)
        /\ \A h \in BindStyle :
                /\ tail(Resolved(Handler(h)), msg.data).some =>
                        Names_it(Resolved(Handler(h)), msg.data)
                /\ Called(h) => Names_it(Resolved(Handler(h)), msg.data)

(***************************************************************************)
(* Claims about the end of dispatch_async, checked under DispatchFairSpec. *)
(***************************************************************************)
\* C31: dispatch_async has returned only when the task of every binding it
\* spawned and the task of every handler those spawned have ended, whether
\* the handler returned, returned an error, panicked or was not called; and
\* when the handlers end, dispatch_async that has spawned its tasks
\* returns.
C31_DispatchWaitsForAll ==
    /\ [](dpc = "done" =>
            /\ \A b \in Binds : bind_task[b] # "none" => bind_task[b] = "done"
            /\ \A h \in HandlerIds : task[h] # "none" => Finished(task[h])
            /\ ~helped => \A b \in Binds : bind_task[b] = "done"
            /\ ~helped => \A h \in HandlerIds : Finished(task[h]))
    /\ (dpc = "joining") ~> (dpc = "done")

\* dispatch_async has returned from a message that reached all handlers:
\* one returned, one returned an error and one panicked.
C31_Witness ==
    /\ dpc = "done"
    /\ ~helped
    /\ task[<<1, 1>>] = "ok"
    /\ task[<<1, 2>>] = "error"
    /\ task[<<2, 1>>] = "panicked"

(***************************************************************************)
(* Claims about the order and the keeping of the requests, checked under   *)
(* Spec.                                                                   *)
(***************************************************************************)
\* The kinds of the frames handle_write writes for a request.
RequestFrames == {"JOIN", "PART", "RAW", "PRIVMSG", "REPLY", "QUIT"}

\* C32: the loop writes the requests in the order the Writer was given
\* them: while the PendingQueue holds requests, which were all received
\* before those still to be received, the next frame of a request the loop
\* writes is that of the front of the PendingQueue.
C32_OutboundFifo ==
    [][(/\ pc = "loop"
        /\ queue # <<>>
        /\ Len(socket') > Len(socket)
        /\ socket'[Len(socket) + 1].kind \in RequestFrames) =>
            socket'[Len(socket) + 1] = Encode(Head(queue))]_vars

\* The frames the step wrote.
NewFrames == SubSeq(socket', Len(socket) + 1, Len(socket'))

\* The request the step took from the Write Queue, unless it is a Join or
\* a Part whose effect the JoinedChannelSet holds after the step.
TakenUnheld ==
    IF recv' = recv \/ recv = <<>> THEN <<>>
    ELSE LET kind == Head(recv)
         IN  IF \/ kind.kind = "Join" /\ kind.channel \in channels'
                \/ kind.kind = "Part" /\ kind.channel \notin channels'
             THEN <<>>
             ELSE <<kind>>

\* C33: when a step of the loop makes run return an error, each request
\* that was in the PendingQueue or was taken from the Write Queue by the
\* step either has its frame on the socket or is in the PendingQueue or
\* the JoinedChannelSet for the next connection.
C33_NoRequestLost ==
    [][(pc = "loop" /\ pc' # "loop" /\ result' # "Ok"
        /\ (recv' # recv \/ queue' # queue)) =>
            Frames(queue) \o Frames(TakenUnheld)
                = NewFrames \o Frames(queue')]_vars

\* C35: the loop never panics, whatever the order of the session messages
\* is, and the Identity of a connection carries the login name a ready
\* message of that connection recorded.
C35_NoPanic ==
    /\ pc # "panic"
    /\ (pc = "loop" /\ identity # None) => identity = our_name

(***************************************************************************)
(* Claims about the reads of the loop, checked under ReadSpec.             *)
(***************************************************************************)
\* C34: run returns CannotRead only when read.next_line() reported the end
\* of the stream or an I/O error; after a line that the codec does not
\* parse the loop goes on.
C34_CannotReadOnlyOnReadFailure ==
    (call.fn = "left" /\ ret.done) =>
        /\ ret.arm.outcome = "CannotRead" =>
                ~(call.next.ok /\ call.next.some)
        /\ (call.next.ok /\ call.next.some /\ ~parse(call.next.line).ok) =>
                ret.arm.outcome = "continue"

(***************************************************************************)
(* Claims about the definition store, checked under StoreSpec.             *)
(***************************************************************************)
\* The definition the commands hold for the id.
DefinitionOf(commands, id) == CHOOSE c \in commands : c.id = id

\* C38: while load_from_str replaces an initialized store, the wrapper of a
\* binding with use_command_file that was bound before resolves an id that
\* the store held when the load began and that the new file holds to an
\* entry of the store, the definition the store held or the definition of
\* the new file.
C38_AtomicReload ==
    [][(/\ call.fn = "store"
        /\ ret'.resolves # ret.resolves
        /\ ret.load \in {"taken", "register"}
        /\ ret.began_bound
        /\ "hi" \in IdsOf(ret.old) \cap IdsOf(ret.this)) =>
            /\ ret'.resolved.live
            /\ ret'.resolved.cmd \in {DefinitionOf(ret.old, "hi"),
                                      DefinitionOf(ret.this, "hi")}]_vars

\* C39: after load_from_str stored a file that holds a definition for the
\* id of the command and the command was bound with use_command_file, the
\* wrapper resolves the id to the definition of the file.
C39_BindKeepsLoaded ==
    [][(/\ call.fn = "store"
        /\ ret'.resolves # ret.resolves
        /\ ret.load = "idle"
        /\ "hi" \in IdsOf(ret.stored)) =>
            /\ ret'.resolved.live
            /\ ret'.resolved.cmd = DefinitionOf(ret.stored, "hi")]_vars

(***************************************************************************)
(* Claims about the gate of a bind-style handler, checked under            *)
(* DispatchSpec.                                                           *)
(***************************************************************************)
\* The text begins with the name or with an alias of the command.
StartsWith(cmd, data) ==
    \E i \in 1..Len(possible_commands(cmd)) :
        LET c == possible_commands(cmd)[i]
        IN  Len(c) <= Len(data) /\ SubSeq(data, 1, Len(c)) = c

\* The replies check_cmd_access sent for h: the usage and the denial.
GateReplies(h) ==
    {i \in 1..Len(recv) :
        /\ recv[i].by = h
        /\ recv[i].data.text \in {"usage", "you cannot use that command"}}

\* C40: for a message whose text does not begin with the name or an alias
\* of the command of a bind-style handler, the wrapper returns without
\* calling the handler and nothing of that handler is in the Write Queue,
\* whatever the access list, the sender and the BindOptions are; and for
\* every message check_cmd_access sends at most one reply, the usage or the
\* denial.
C40_NoMatchNoEffect ==
    \A h \in BindStyle :
        /\ (Decided(h) /\ ~StartsWith(Resolved(Handler(h)), msg.data)) =>
                /\ task[h] = "skipped"
                /\ h \notin replied
                /\ \A i \in 1..Len(recv) : recv[i].by # h
        /\ Cardinality(GateReplies(h)) <= 1

\* A sender the access list denies wrote a text that names no command to a
\* handler that reports both errors: the wrapper returned and the
\* handler left nothing in the Write Queue.
C40_Witness ==
    /\ msg.data = <<"x">>
    /\ task[<<1, 1>>] = "skipped"
    /\ Handler(<<1, 1>>).opts.report_invalid_usage
    /\ Handler(<<1, 1>>).opts.report_access_error
    /\ ~is_allowed(msg, Resolved(Handler(<<1, 1>>)).allowed)
    /\ ~StartsWith(Resolved(Handler(<<1, 1>>)), msg.data)
    /\ \A i \in 1..Len(recv) : recv[i].by # <<1, 1>>

=============================================================================
